---- MODULE Spec2Model ----
(***************************************************************************)
(* Model of the README cleaner of scripts/fetch_terraform_readmes.py.      *)
(*                                                                         *)
(* A character is its code point (what ord gives), a text is a sequence of *)
(* characters, a line is a text without line breaks, a document is a       *)
(* sequence of lines, and the content of a file is a sequence of bytes.    *)
(* Text("# T") is the text of a string of printable ASCII characters.      *)
(* Indices into a document are the 0-based indices of the Python code:     *)
(* line i of the code is lines[i + 1] here.                                *)
(***************************************************************************)
EXTENDS Integers, Sequences, FiniteSets, TLC

VARIABLES
    markdown_text,  \* clean_readme's argument
    lines,          \* the document after newline normalisation and split
    title_index,    \* find_first_title's result, None when there is no title
    para_index,     \* loop index i at the break of the paragraph scan, or None
    title_block,    \* the title block, a sequence of lines
    start,          \* find_content_start's result
    end,            \* find_content_end's result
    body_src,       \* indices of the lines of lines[start:end] that were kept
    filtered_body,  \* the kept body lines, right-trimmed
    output_lines,   \* compact_blank_lines' result
    output,         \* clean_readme's return value
    pc,             \* position inside clean_readme
    pass,           \* number of the current clean_readme call
    first_output,   \* the return value of the previous call (the input of this one)
    src_lines,      \* the lines markdown_text was joined from (<< >> from pass 2 on)
    line_ending,    \* the line ending they were joined with
    repos,            \* run: the list list_org_repositories returned
    include_archived, \* run: its argument
    repo_index,       \* run: number of entries of repos the loop has been through
    repository_count, \* run: summary["repository_count"]
    processed,        \* run: summary["processed"]
    skipped,          \* run: summary["skipped"]
    fetched,          \* run: the fetch_readme calls made, each with its outcome
    dirs,             \* run: the directories under root, as paths relative to root
    files,            \* run: the files under root, each with its path and its bytes
    run_pc            \* run: position ("loop", "summary", "returned", "raised"; "idle" when not running)

cleanVars == << markdown_text, lines, title_index, para_index, title_block, start,
                end, body_src, filtered_body, output_lines, output, pc, pass,
                first_output, src_lines, line_ending >>

runVars == << repos, include_archived, repo_index, repository_count, processed,
              skipped, fetched, dirs, files, run_pc >>

vars == << cleanVars, runVars >>

\* how the argument of the current call was built
inputVars == << src_lines, line_ending >>

(***************************************************************************)
(* Texts of this module.                                                   *)
(***************************************************************************)
\* the characters U+0020 to U+005F and U+0061 to U+007E, in order
Ascii32To95 == " !\"#$%&'()*+,-./0123456789:;<=>?@ABCDEFGHIJKLMNOPQRSTUVWXYZ[\\]^_"
Ascii97To126 == "abcdefghijklmnopqrstuvwxyz{|}~"

\* ord(c) for the characters of the two strings
ord ==
    [c \in { SubSeq(Ascii32To95, k, k) : k \in 1..Len(Ascii32To95) } |->
        31 + (CHOOSE k \in 1..Len(Ascii32To95) : SubSeq(Ascii32To95, k, k) = c)]
    @@ [c \in { SubSeq(Ascii97To126, k, k) : k \in 1..Len(Ascii97To126) } |->
        96 + (CHOOSE k \in 1..Len(Ascii97To126) : SubSeq(Ascii97To126, k, k) = c)]

\* the text of a string
Text(s) == [i \in 1..Len(s) |-> ord[SubSeq(s, i, i)]]

LF == 10
CR == 13
Space == 32
Hash == 35
Backquote == 96

Min(a, b) == IF a <= b THEN a ELSE b

\* the integers lo, ..., hi in order
Indices(lo, hi) == [k \in 1..(hi - lo + 1) |-> lo + k - 1]

\* the concatenation of the sequences ss[lo], ..., ss[hi]
RECURSIVE FlattenRange(_, _, _)
FlattenRange(ss, lo, hi) ==
    IF lo > hi THEN << >>
    ELSE IF lo = hi THEN ss[lo]
    ELSE LET mid == (lo + hi) \div 2
         IN  FlattenRange(ss, lo, mid) \o FlattenRange(ss, mid + 1, hi)

\* the concatenation of the sequences of ss
Flatten(ss) == FlattenRange(ss, 1, Len(ss))

(***************************************************************************)
(* Character classes of Python 3.11 (Unicode 14.0), for every code point.  *)
(* A table of ranges is sorted and its ranges are disjoint.                *)
(***************************************************************************)
\* the characters of str.isspace(): what str.strip() strips and \s matches
Whitespace == {
    9, 10, 11, 12, 13, 28, 29, 30, 31, 32, 133, 160, 5760, 8192, 8193, 8194, 8195, 8196,
    8197, 8198, 8199, 8200, 8201, 8202, 8232, 8233, 8239, 8287, 12288 }

\* the characters \w matches (str.isalnum() or "_"), as ranges first..last
WordChars == <<
    << 48, 57 >>, << 65, 90 >>, << 95, 95 >>, << 97, 122 >>, << 170, 170 >>,
    << 178, 179 >>, << 181, 181 >>, << 185, 186 >>, << 188, 190 >>, << 192, 214 >>,
    << 216, 246 >>, << 248, 705 >>, << 710, 721 >>, << 736, 740 >>, << 748, 748 >>,
    << 750, 750 >>, << 880, 884 >>, << 886, 887 >>, << 890, 893 >>, << 895, 895 >>,
    << 902, 902 >>, << 904, 906 >>, << 908, 908 >>, << 910, 929 >>, << 931, 1013 >>,
    << 1015, 1153 >>, << 1162, 1327 >>, << 1329, 1366 >>, << 1369, 1369 >>,
    << 1376, 1416 >>, << 1488, 1514 >>, << 1519, 1522 >>, << 1568, 1610 >>,
    << 1632, 1641 >>, << 1646, 1647 >>, << 1649, 1747 >>, << 1749, 1749 >>,
    << 1765, 1766 >>, << 1774, 1788 >>, << 1791, 1791 >>, << 1808, 1808 >>,
    << 1810, 1839 >>, << 1869, 1957 >>, << 1969, 1969 >>, << 1984, 2026 >>,
    << 2036, 2037 >>, << 2042, 2042 >>, << 2048, 2069 >>, << 2074, 2074 >>,
    << 2084, 2084 >>, << 2088, 2088 >>, << 2112, 2136 >>, << 2144, 2154 >>,
    << 2160, 2183 >>, << 2185, 2190 >>, << 2208, 2249 >>, << 2308, 2361 >>,
    << 2365, 2365 >>, << 2384, 2384 >>, << 2392, 2401 >>, << 2406, 2415 >>,
    << 2417, 2432 >>, << 2437, 2444 >>, << 2447, 2448 >>, << 2451, 2472 >>,
    << 2474, 2480 >>, << 2482, 2482 >>, << 2486, 2489 >>, << 2493, 2493 >>,
    << 2510, 2510 >>, << 2524, 2525 >>, << 2527, 2529 >>, << 2534, 2545 >>,
    << 2548, 2553 >>, << 2556, 2556 >>, << 2565, 2570 >>, << 2575, 2576 >>,
    << 2579, 2600 >>, << 2602, 2608 >>, << 2610, 2611 >>, << 2613, 2614 >>,
    << 2616, 2617 >>, << 2649, 2652 >>, << 2654, 2654 >>, << 2662, 2671 >>,
    << 2674, 2676 >>, << 2693, 2701 >>, << 2703, 2705 >>, << 2707, 2728 >>,
    << 2730, 2736 >>, << 2738, 2739 >>, << 2741, 2745 >>, << 2749, 2749 >>,
    << 2768, 2768 >>, << 2784, 2785 >>, << 2790, 2799 >>, << 2809, 2809 >>,
    << 2821, 2828 >>, << 2831, 2832 >>, << 2835, 2856 >>, << 2858, 2864 >>,
    << 2866, 2867 >>, << 2869, 2873 >>, << 2877, 2877 >>, << 2908, 2909 >>,
    << 2911, 2913 >>, << 2918, 2927 >>, << 2929, 2935 >>, << 2947, 2947 >>,
    << 2949, 2954 >>, << 2958, 2960 >>, << 2962, 2965 >>, << 2969, 2970 >>,
    << 2972, 2972 >>, << 2974, 2975 >>, << 2979, 2980 >>, << 2984, 2986 >>,
    << 2990, 3001 >>, << 3024, 3024 >>, << 3046, 3058 >>, << 3077, 3084 >>,
    << 3086, 3088 >>, << 3090, 3112 >>, << 3114, 3129 >>, << 3133, 3133 >>,
    << 3160, 3162 >>, << 3165, 3165 >>, << 3168, 3169 >>, << 3174, 3183 >>,
    << 3192, 3198 >>, << 3200, 3200 >>, << 3205, 3212 >>, << 3214, 3216 >>,
    << 3218, 3240 >>, << 3242, 3251 >>, << 3253, 3257 >>, << 3261, 3261 >>,
    << 3293, 3294 >>, << 3296, 3297 >>, << 3302, 3311 >>, << 3313, 3314 >>,
    << 3332, 3340 >>, << 3342, 3344 >>, << 3346, 3386 >>, << 3389, 3389 >>,
    << 3406, 3406 >>, << 3412, 3414 >>, << 3416, 3425 >>, << 3430, 3448 >>,
    << 3450, 3455 >>, << 3461, 3478 >>, << 3482, 3505 >>, << 3507, 3515 >>,
    << 3517, 3517 >>, << 3520, 3526 >>, << 3558, 3567 >>, << 3585, 3632 >>,
    << 3634, 3635 >>, << 3648, 3654 >>, << 3664, 3673 >>, << 3713, 3714 >>,
    << 3716, 3716 >>, << 3718, 3722 >>, << 3724, 3747 >>, << 3749, 3749 >>,
    << 3751, 3760 >>, << 3762, 3763 >>, << 3773, 3773 >>, << 3776, 3780 >>,
    << 3782, 3782 >>, << 3792, 3801 >>, << 3804, 3807 >>, << 3840, 3840 >>,
    << 3872, 3891 >>, << 3904, 3911 >>, << 3913, 3948 >>, << 3976, 3980 >>,
    << 4096, 4138 >>, << 4159, 4169 >>, << 4176, 4181 >>, << 4186, 4189 >>,
    << 4193, 4193 >>, << 4197, 4198 >>, << 4206, 4208 >>, << 4213, 4225 >>,
    << 4238, 4238 >>, << 4240, 4249 >>, << 4256, 4293 >>, << 4295, 4295 >>,
    << 4301, 4301 >>, << 4304, 4346 >>, << 4348, 4680 >>, << 4682, 4685 >>,
    << 4688, 4694 >>, << 4696, 4696 >>, << 4698, 4701 >>, << 4704, 4744 >>,
    << 4746, 4749 >>, << 4752, 4784 >>, << 4786, 4789 >>, << 4792, 4798 >>,
    << 4800, 4800 >>, << 4802, 4805 >>, << 4808, 4822 >>, << 4824, 4880 >>,
    << 4882, 4885 >>, << 4888, 4954 >>, << 4969, 4988 >>, << 4992, 5007 >>,
    << 5024, 5109 >>, << 5112, 5117 >>, << 5121, 5740 >>, << 5743, 5759 >>,
    << 5761, 5786 >>, << 5792, 5866 >>, << 5870, 5880 >>, << 5888, 5905 >>,
    << 5919, 5937 >>, << 5952, 5969 >>, << 5984, 5996 >>, << 5998, 6000 >>,
    << 6016, 6067 >>, << 6103, 6103 >>, << 6108, 6108 >>, << 6112, 6121 >>,
    << 6128, 6137 >>, << 6160, 6169 >>, << 6176, 6264 >>, << 6272, 6276 >>,
    << 6279, 6312 >>, << 6314, 6314 >>, << 6320, 6389 >>, << 6400, 6430 >>,
    << 6470, 6509 >>, << 6512, 6516 >>, << 6528, 6571 >>, << 6576, 6601 >>,
    << 6608, 6618 >>, << 6656, 6678 >>, << 6688, 6740 >>, << 6784, 6793 >>,
    << 6800, 6809 >>, << 6823, 6823 >>, << 6917, 6963 >>, << 6981, 6988 >>,
    << 6992, 7001 >>, << 7043, 7072 >>, << 7086, 7141 >>, << 7168, 7203 >>,
    << 7232, 7241 >>, << 7245, 7293 >>, << 7296, 7304 >>, << 7312, 7354 >>,
    << 7357, 7359 >>, << 7401, 7404 >>, << 7406, 7411 >>, << 7413, 7414 >>,
    << 7418, 7418 >>, << 7424, 7615 >>, << 7680, 7957 >>, << 7960, 7965 >>,
    << 7968, 8005 >>, << 8008, 8013 >>, << 8016, 8023 >>, << 8025, 8025 >>,
    << 8027, 8027 >>, << 8029, 8029 >>, << 8031, 8061 >>, << 8064, 8116 >>,
    << 8118, 8124 >>, << 8126, 8126 >>, << 8130, 8132 >>, << 8134, 8140 >>,
    << 8144, 8147 >>, << 8150, 8155 >>, << 8160, 8172 >>, << 8178, 8180 >>,
    << 8182, 8188 >>, << 8304, 8305 >>, << 8308, 8313 >>, << 8319, 8329 >>,
    << 8336, 8348 >>, << 8450, 8450 >>, << 8455, 8455 >>, << 8458, 8467 >>,
    << 8469, 8469 >>, << 8473, 8477 >>, << 8484, 8484 >>, << 8486, 8486 >>,
    << 8488, 8488 >>, << 8490, 8493 >>, << 8495, 8505 >>, << 8508, 8511 >>,
    << 8517, 8521 >>, << 8526, 8526 >>, << 8528, 8585 >>, << 9312, 9371 >>,
    << 9450, 9471 >>, << 10102, 10131 >>, << 11264, 11492 >>, << 11499, 11502 >>,
    << 11506, 11507 >>, << 11517, 11517 >>, << 11520, 11557 >>, << 11559, 11559 >>,
    << 11565, 11565 >>, << 11568, 11623 >>, << 11631, 11631 >>, << 11648, 11670 >>,
    << 11680, 11686 >>, << 11688, 11694 >>, << 11696, 11702 >>, << 11704, 11710 >>,
    << 11712, 11718 >>, << 11720, 11726 >>, << 11728, 11734 >>, << 11736, 11742 >>,
    << 11823, 11823 >>, << 12293, 12295 >>, << 12321, 12329 >>, << 12337, 12341 >>,
    << 12344, 12348 >>, << 12353, 12438 >>, << 12445, 12447 >>, << 12449, 12538 >>,
    << 12540, 12543 >>, << 12549, 12591 >>, << 12593, 12686 >>, << 12690, 12693 >>,
    << 12704, 12735 >>, << 12784, 12799 >>, << 12832, 12841 >>, << 12872, 12879 >>,
    << 12881, 12895 >>, << 12928, 12937 >>, << 12977, 12991 >>, << 13312, 19903 >>,
    << 19968, 42124 >>, << 42192, 42237 >>, << 42240, 42508 >>, << 42512, 42539 >>,
    << 42560, 42606 >>, << 42623, 42653 >>, << 42656, 42735 >>, << 42775, 42783 >>,
    << 42786, 42888 >>, << 42891, 42954 >>, << 42960, 42961 >>, << 42963, 42963 >>,
    << 42965, 42969 >>, << 42994, 43009 >>, << 43011, 43013 >>, << 43015, 43018 >>,
    << 43020, 43042 >>, << 43056, 43061 >>, << 43072, 43123 >>, << 43138, 43187 >>,
    << 43216, 43225 >>, << 43250, 43255 >>, << 43259, 43259 >>, << 43261, 43262 >>,
    << 43264, 43301 >>, << 43312, 43334 >>, << 43360, 43388 >>, << 43396, 43442 >>,
    << 43471, 43481 >>, << 43488, 43492 >>, << 43494, 43518 >>, << 43520, 43560 >>,
    << 43584, 43586 >>, << 43588, 43595 >>, << 43600, 43609 >>, << 43616, 43638 >>,
    << 43642, 43642 >>, << 43646, 43695 >>, << 43697, 43697 >>, << 43701, 43702 >>,
    << 43705, 43709 >>, << 43712, 43712 >>, << 43714, 43714 >>, << 43739, 43741 >>,
    << 43744, 43754 >>, << 43762, 43764 >>, << 43777, 43782 >>, << 43785, 43790 >>,
    << 43793, 43798 >>, << 43808, 43814 >>, << 43816, 43822 >>, << 43824, 43866 >>,
    << 43868, 43881 >>, << 43888, 44002 >>, << 44016, 44025 >>, << 44032, 55203 >>,
    << 55216, 55238 >>, << 55243, 55291 >>, << 63744, 64109 >>, << 64112, 64217 >>,
    << 64256, 64262 >>, << 64275, 64279 >>, << 64285, 64285 >>, << 64287, 64296 >>,
    << 64298, 64310 >>, << 64312, 64316 >>, << 64318, 64318 >>, << 64320, 64321 >>,
    << 64323, 64324 >>, << 64326, 64433 >>, << 64467, 64829 >>, << 64848, 64911 >>,
    << 64914, 64967 >>, << 65008, 65019 >>, << 65136, 65140 >>, << 65142, 65276 >>,
    << 65296, 65305 >>, << 65313, 65338 >>, << 65345, 65370 >>, << 65382, 65470 >>,
    << 65474, 65479 >>, << 65482, 65487 >>, << 65490, 65495 >>, << 65498, 65500 >>,
    << 65536, 65547 >>, << 65549, 65574 >>, << 65576, 65594 >>, << 65596, 65597 >>,
    << 65599, 65613 >>, << 65616, 65629 >>, << 65664, 65786 >>, << 65799, 65843 >>,
    << 65856, 65912 >>, << 65930, 65931 >>, << 66176, 66204 >>, << 66208, 66256 >>,
    << 66273, 66299 >>, << 66304, 66339 >>, << 66349, 66378 >>, << 66384, 66421 >>,
    << 66432, 66461 >>, << 66464, 66499 >>, << 66504, 66511 >>, << 66513, 66517 >>,
    << 66560, 66717 >>, << 66720, 66729 >>, << 66736, 66771 >>, << 66776, 66811 >>,
    << 66816, 66855 >>, << 66864, 66915 >>, << 66928, 66938 >>, << 66940, 66954 >>,
    << 66956, 66962 >>, << 66964, 66965 >>, << 66967, 66977 >>, << 66979, 66993 >>,
    << 66995, 67001 >>, << 67003, 67004 >>, << 67072, 67382 >>, << 67392, 67413 >>,
    << 67424, 67431 >>, << 67456, 67461 >>, << 67463, 67504 >>, << 67506, 67514 >>,
    << 67584, 67589 >>, << 67592, 67592 >>, << 67594, 67637 >>, << 67639, 67640 >>,
    << 67644, 67644 >>, << 67647, 67669 >>, << 67672, 67702 >>, << 67705, 67742 >>,
    << 67751, 67759 >>, << 67808, 67826 >>, << 67828, 67829 >>, << 67835, 67867 >>,
    << 67872, 67897 >>, << 67968, 68023 >>, << 68028, 68047 >>, << 68050, 68096 >>,
    << 68112, 68115 >>, << 68117, 68119 >>, << 68121, 68149 >>, << 68160, 68168 >>,
    << 68192, 68222 >>, << 68224, 68255 >>, << 68288, 68295 >>, << 68297, 68324 >>,
    << 68331, 68335 >>, << 68352, 68405 >>, << 68416, 68437 >>, << 68440, 68466 >>,
    << 68472, 68497 >>, << 68521, 68527 >>, << 68608, 68680 >>, << 68736, 68786 >>,
    << 68800, 68850 >>, << 68858, 68899 >>, << 68912, 68921 >>, << 69216, 69246 >>,
    << 69248, 69289 >>, << 69296, 69297 >>, << 69376, 69415 >>, << 69424, 69445 >>,
    << 69457, 69460 >>, << 69488, 69505 >>, << 69552, 69579 >>, << 69600, 69622 >>,
    << 69635, 69687 >>, << 69714, 69743 >>, << 69745, 69746 >>, << 69749, 69749 >>,
    << 69763, 69807 >>, << 69840, 69864 >>, << 69872, 69881 >>, << 69891, 69926 >>,
    << 69942, 69951 >>, << 69956, 69956 >>, << 69959, 69959 >>, << 69968, 70002 >>,
    << 70006, 70006 >>, << 70019, 70066 >>, << 70081, 70084 >>, << 70096, 70106 >>,
    << 70108, 70108 >>, << 70113, 70132 >>, << 70144, 70161 >>, << 70163, 70187 >>,
    << 70272, 70278 >>, << 70280, 70280 >>, << 70282, 70285 >>, << 70287, 70301 >>,
    << 70303, 70312 >>, << 70320, 70366 >>, << 70384, 70393 >>, << 70405, 70412 >>,
    << 70415, 70416 >>, << 70419, 70440 >>, << 70442, 70448 >>, << 70450, 70451 >>,
    << 70453, 70457 >>, << 70461, 70461 >>, << 70480, 70480 >>, << 70493, 70497 >>,
    << 70656, 70708 >>, << 70727, 70730 >>, << 70736, 70745 >>, << 70751, 70753 >>,
    << 70784, 70831 >>, << 70852, 70853 >>, << 70855, 70855 >>, << 70864, 70873 >>,
    << 71040, 71086 >>, << 71128, 71131 >>, << 71168, 71215 >>, << 71236, 71236 >>,
    << 71248, 71257 >>, << 71296, 71338 >>, << 71352, 71352 >>, << 71360, 71369 >>,
    << 71424, 71450 >>, << 71472, 71483 >>, << 71488, 71494 >>, << 71680, 71723 >>,
    << 71840, 71922 >>, << 71935, 71942 >>, << 71945, 71945 >>, << 71948, 71955 >>,
    << 71957, 71958 >>, << 71960, 71983 >>, << 71999, 71999 >>, << 72001, 72001 >>,
    << 72016, 72025 >>, << 72096, 72103 >>, << 72106, 72144 >>, << 72161, 72161 >>,
    << 72163, 72163 >>, << 72192, 72192 >>, << 72203, 72242 >>, << 72250, 72250 >>,
    << 72272, 72272 >>, << 72284, 72329 >>, << 72349, 72349 >>, << 72368, 72440 >>,
    << 72704, 72712 >>, << 72714, 72750 >>, << 72768, 72768 >>, << 72784, 72812 >>,
    << 72818, 72847 >>, << 72960, 72966 >>, << 72968, 72969 >>, << 72971, 73008 >>,
    << 73030, 73030 >>, << 73040, 73049 >>, << 73056, 73061 >>, << 73063, 73064 >>,
    << 73066, 73097 >>, << 73112, 73112 >>, << 73120, 73129 >>, << 73440, 73458 >>,
    << 73648, 73648 >>, << 73664, 73684 >>, << 73728, 74649 >>, << 74752, 74862 >>,
    << 74880, 75075 >>, << 77712, 77808 >>, << 77824, 78894 >>, << 82944, 83526 >>,
    << 92160, 92728 >>, << 92736, 92766 >>, << 92768, 92777 >>, << 92784, 92862 >>,
    << 92864, 92873 >>, << 92880, 92909 >>, << 92928, 92975 >>, << 92992, 92995 >>,
    << 93008, 93017 >>, << 93019, 93025 >>, << 93027, 93047 >>, << 93053, 93071 >>,
    << 93760, 93846 >>, << 93952, 94026 >>, << 94032, 94032 >>, << 94099, 94111 >>,
    << 94176, 94177 >>, << 94179, 94179 >>, << 94208, 100343 >>, << 100352, 101589 >>,
    << 101632, 101640 >>, << 110576, 110579 >>, << 110581, 110587 >>,
    << 110589, 110590 >>, << 110592, 110882 >>, << 110928, 110930 >>,
    << 110948, 110951 >>, << 110960, 111355 >>, << 113664, 113770 >>,
    << 113776, 113788 >>, << 113792, 113800 >>, << 113808, 113817 >>,
    << 119520, 119539 >>, << 119648, 119672 >>, << 119808, 119892 >>,
    << 119894, 119964 >>, << 119966, 119967 >>, << 119970, 119970 >>,
    << 119973, 119974 >>, << 119977, 119980 >>, << 119982, 119993 >>,
    << 119995, 119995 >>, << 119997, 120003 >>, << 120005, 120069 >>,
    << 120071, 120074 >>, << 120077, 120084 >>, << 120086, 120092 >>,
    << 120094, 120121 >>, << 120123, 120126 >>, << 120128, 120132 >>,
    << 120134, 120134 >>, << 120138, 120144 >>, << 120146, 120485 >>,
    << 120488, 120512 >>, << 120514, 120538 >>, << 120540, 120570 >>,
    << 120572, 120596 >>, << 120598, 120628 >>, << 120630, 120654 >>,
    << 120656, 120686 >>, << 120688, 120712 >>, << 120714, 120744 >>,
    << 120746, 120770 >>, << 120772, 120779 >>, << 120782, 120831 >>,
    << 122624, 122654 >>, << 123136, 123180 >>, << 123191, 123197 >>,
    << 123200, 123209 >>, << 123214, 123214 >>, << 123536, 123565 >>,
    << 123584, 123627 >>, << 123632, 123641 >>, << 124896, 124902 >>,
    << 124904, 124907 >>, << 124909, 124910 >>, << 124912, 124926 >>,
    << 124928, 125124 >>, << 125127, 125135 >>, << 125184, 125251 >>,
    << 125259, 125259 >>, << 125264, 125273 >>, << 126065, 126123 >>,
    << 126125, 126127 >>, << 126129, 126132 >>, << 126209, 126253 >>,
    << 126255, 126269 >>, << 126464, 126467 >>, << 126469, 126495 >>,
    << 126497, 126498 >>, << 126500, 126500 >>, << 126503, 126503 >>,
    << 126505, 126514 >>, << 126516, 126519 >>, << 126521, 126521 >>,
    << 126523, 126523 >>, << 126530, 126530 >>, << 126535, 126535 >>,
    << 126537, 126537 >>, << 126539, 126539 >>, << 126541, 126543 >>,
    << 126545, 126546 >>, << 126548, 126548 >>, << 126551, 126551 >>,
    << 126553, 126553 >>, << 126555, 126555 >>, << 126557, 126557 >>,
    << 126559, 126559 >>, << 126561, 126562 >>, << 126564, 126564 >>,
    << 126567, 126570 >>, << 126572, 126578 >>, << 126580, 126583 >>,
    << 126585, 126588 >>, << 126590, 126590 >>, << 126592, 126601 >>,
    << 126603, 126619 >>, << 126625, 126627 >>, << 126629, 126633 >>,
    << 126635, 126651 >>, << 127232, 127244 >>, << 130032, 130041 >>,
    << 131072, 173791 >>, << 173824, 177976 >>, << 177984, 178205 >>,
    << 178208, 183969 >>, << 183984, 191456 >>, << 194560, 195101 >>, << 196608, 201546 >> >>

\* str.lower() of a single character: the characters first, first + step,
\* ..., last become the character delta code points further, as
\* << first, last, step, delta >>; every other character but U+0130 and,
\* at the end of a word, U+03A3 stays as it is
Lowercase == <<
    << 65, 90, 1, 32 >>, << 192, 214, 1, 32 >>, << 216, 222, 1, 32 >>,
    << 256, 302, 2, 1 >>, << 306, 310, 2, 1 >>, << 313, 327, 2, 1 >>,
    << 330, 374, 2, 1 >>, << 376, 376, 1, -121 >>, << 377, 381, 2, 1 >>,
    << 385, 385, 1, 210 >>, << 386, 388, 2, 1 >>, << 390, 390, 1, 206 >>,
    << 391, 391, 1, 1 >>, << 393, 394, 1, 205 >>, << 395, 395, 1, 1 >>,
    << 398, 398, 1, 79 >>, << 399, 399, 1, 202 >>, << 400, 400, 1, 203 >>,
    << 401, 401, 1, 1 >>, << 403, 403, 1, 205 >>, << 404, 404, 1, 207 >>,
    << 406, 406, 1, 211 >>, << 407, 407, 1, 209 >>, << 408, 408, 1, 1 >>,
    << 412, 412, 1, 211 >>, << 413, 413, 1, 213 >>, << 415, 415, 1, 214 >>,
    << 416, 420, 2, 1 >>, << 422, 422, 1, 218 >>, << 423, 423, 1, 1 >>,
    << 425, 425, 1, 218 >>, << 428, 428, 1, 1 >>, << 430, 430, 1, 218 >>,
    << 431, 431, 1, 1 >>, << 433, 434, 1, 217 >>, << 435, 437, 2, 1 >>,
    << 439, 439, 1, 219 >>, << 440, 440, 1, 1 >>, << 444, 444, 1, 1 >>,
    << 452, 452, 1, 2 >>, << 453, 453, 1, 1 >>, << 455, 455, 1, 2 >>,
    << 456, 456, 1, 1 >>, << 458, 458, 1, 2 >>, << 459, 475, 2, 1 >>,
    << 478, 494, 2, 1 >>, << 497, 497, 1, 2 >>, << 498, 500, 2, 1 >>,
    << 502, 502, 1, -97 >>, << 503, 503, 1, -56 >>, << 504, 542, 2, 1 >>,
    << 544, 544, 1, -130 >>, << 546, 562, 2, 1 >>, << 570, 570, 1, 10795 >>,
    << 571, 571, 1, 1 >>, << 573, 573, 1, -163 >>, << 574, 574, 1, 10792 >>,
    << 577, 577, 1, 1 >>, << 579, 579, 1, -195 >>, << 580, 580, 1, 69 >>,
    << 581, 581, 1, 71 >>, << 582, 590, 2, 1 >>, << 880, 882, 2, 1 >>,
    << 886, 886, 1, 1 >>, << 895, 895, 1, 116 >>, << 902, 902, 1, 38 >>,
    << 904, 906, 1, 37 >>, << 908, 908, 1, 64 >>, << 910, 911, 1, 63 >>,
    << 913, 929, 1, 32 >>, << 931, 939, 1, 32 >>, << 975, 975, 1, 8 >>,
    << 984, 1006, 2, 1 >>, << 1012, 1012, 1, -60 >>, << 1015, 1015, 1, 1 >>,
    << 1017, 1017, 1, -7 >>, << 1018, 1018, 1, 1 >>, << 1021, 1023, 1, -130 >>,
    << 1024, 1039, 1, 80 >>, << 1040, 1071, 1, 32 >>, << 1120, 1152, 2, 1 >>,
    << 1162, 1214, 2, 1 >>, << 1216, 1216, 1, 15 >>, << 1217, 1229, 2, 1 >>,
    << 1232, 1326, 2, 1 >>, << 1329, 1366, 1, 48 >>, << 4256, 4293, 1, 7264 >>,
    << 4295, 4295, 1, 7264 >>, << 4301, 4301, 1, 7264 >>, << 5024, 5103, 1, 38864 >>,
    << 5104, 5109, 1, 8 >>, << 7312, 7354, 1, -3008 >>, << 7357, 7359, 1, -3008 >>,
    << 7680, 7828, 2, 1 >>, << 7838, 7838, 1, -7615 >>, << 7840, 7934, 2, 1 >>,
    << 7944, 7951, 1, -8 >>, << 7960, 7965, 1, -8 >>, << 7976, 7983, 1, -8 >>,
    << 7992, 7999, 1, -8 >>, << 8008, 8013, 1, -8 >>, << 8025, 8031, 2, -8 >>,
    << 8040, 8047, 1, -8 >>, << 8072, 8079, 1, -8 >>, << 8088, 8095, 1, -8 >>,
    << 8104, 8111, 1, -8 >>, << 8120, 8121, 1, -8 >>, << 8122, 8123, 1, -74 >>,
    << 8124, 8124, 1, -9 >>, << 8136, 8139, 1, -86 >>, << 8140, 8140, 1, -9 >>,
    << 8152, 8153, 1, -8 >>, << 8154, 8155, 1, -100 >>, << 8168, 8169, 1, -8 >>,
    << 8170, 8171, 1, -112 >>, << 8172, 8172, 1, -7 >>, << 8184, 8185, 1, -128 >>,
    << 8186, 8187, 1, -126 >>, << 8188, 8188, 1, -9 >>, << 8486, 8486, 1, -7517 >>,
    << 8490, 8490, 1, -8383 >>, << 8491, 8491, 1, -8262 >>, << 8498, 8498, 1, 28 >>,
    << 8544, 8559, 1, 16 >>, << 8579, 8579, 1, 1 >>, << 9398, 9423, 1, 26 >>,
    << 11264, 11311, 1, 48 >>, << 11360, 11360, 1, 1 >>, << 11362, 11362, 1, -10743 >>,
    << 11363, 11363, 1, -3814 >>, << 11364, 11364, 1, -10727 >>,
    << 11367, 11371, 2, 1 >>, << 11373, 11373, 1, -10780 >>,
    << 11374, 11374, 1, -10749 >>, << 11375, 11375, 1, -10783 >>,
    << 11376, 11376, 1, -10782 >>, << 11378, 11378, 1, 1 >>, << 11381, 11381, 1, 1 >>,
    << 11390, 11391, 1, -10815 >>, << 11392, 11490, 2, 1 >>, << 11499, 11501, 2, 1 >>,
    << 11506, 11506, 1, 1 >>, << 42560, 42604, 2, 1 >>, << 42624, 42650, 2, 1 >>,
    << 42786, 42798, 2, 1 >>, << 42802, 42862, 2, 1 >>, << 42873, 42875, 2, 1 >>,
    << 42877, 42877, 1, -35332 >>, << 42878, 42886, 2, 1 >>, << 42891, 42891, 1, 1 >>,
    << 42893, 42893, 1, -42280 >>, << 42896, 42898, 2, 1 >>, << 42902, 42920, 2, 1 >>,
    << 42922, 42922, 1, -42308 >>, << 42923, 42923, 1, -42319 >>,
    << 42924, 42924, 1, -42315 >>, << 42925, 42925, 1, -42305 >>,
    << 42926, 42926, 1, -42308 >>, << 42928, 42928, 1, -42258 >>,
    << 42929, 42929, 1, -42282 >>, << 42930, 42930, 1, -42261 >>,
    << 42931, 42931, 1, 928 >>, << 42932, 42946, 2, 1 >>, << 42948, 42948, 1, -48 >>,
    << 42949, 42949, 1, -42307 >>, << 42950, 42950, 1, -35384 >>,
    << 42951, 42953, 2, 1 >>, << 42960, 42960, 1, 1 >>, << 42966, 42968, 2, 1 >>,
    << 42997, 42997, 1, 1 >>, << 65313, 65338, 1, 32 >>, << 66560, 66599, 1, 40 >>,
    << 66736, 66771, 1, 40 >>, << 66928, 66938, 1, 39 >>, << 66940, 66954, 1, 39 >>,
    << 66956, 66962, 1, 39 >>, << 66964, 66965, 1, 39 >>, << 68736, 68786, 1, 64 >>,
    << 71840, 71871, 1, 32 >>, << 93760, 93791, 1, 32 >>, << 125184, 125217, 1, 34 >> >>

\* the case-ignorable characters, as ranges first..last
CaseIgnorable == <<
    << 39, 39 >>, << 46, 46 >>, << 58, 58 >>, << 94, 94 >>, << 96, 96 >>, << 168, 168 >>,
    << 173, 173 >>, << 175, 175 >>, << 180, 180 >>, << 183, 184 >>, << 688, 879 >>,
    << 884, 885 >>, << 890, 890 >>, << 900, 901 >>, << 903, 903 >>, << 1155, 1161 >>,
    << 1369, 1369 >>, << 1375, 1375 >>, << 1425, 1469 >>, << 1471, 1471 >>,
    << 1473, 1474 >>, << 1476, 1477 >>, << 1479, 1479 >>, << 1524, 1524 >>,
    << 1536, 1541 >>, << 1552, 1562 >>, << 1564, 1564 >>, << 1600, 1600 >>,
    << 1611, 1631 >>, << 1648, 1648 >>, << 1750, 1757 >>, << 1759, 1768 >>,
    << 1770, 1773 >>, << 1807, 1807 >>, << 1809, 1809 >>, << 1840, 1866 >>,
    << 1958, 1968 >>, << 2027, 2037 >>, << 2042, 2042 >>, << 2045, 2045 >>,
    << 2070, 2093 >>, << 2137, 2139 >>, << 2184, 2184 >>, << 2192, 2193 >>,
    << 2200, 2207 >>, << 2249, 2306 >>, << 2362, 2362 >>, << 2364, 2364 >>,
    << 2369, 2376 >>, << 2381, 2381 >>, << 2385, 2391 >>, << 2402, 2403 >>,
    << 2417, 2417 >>, << 2433, 2433 >>, << 2492, 2492 >>, << 2497, 2500 >>,
    << 2509, 2509 >>, << 2530, 2531 >>, << 2558, 2558 >>, << 2561, 2562 >>,
    << 2620, 2620 >>, << 2625, 2626 >>, << 2631, 2632 >>, << 2635, 2637 >>,
    << 2641, 2641 >>, << 2672, 2673 >>, << 2677, 2677 >>, << 2689, 2690 >>,
    << 2748, 2748 >>, << 2753, 2757 >>, << 2759, 2760 >>, << 2765, 2765 >>,
    << 2786, 2787 >>, << 2810, 2815 >>, << 2817, 2817 >>, << 2876, 2876 >>,
    << 2879, 2879 >>, << 2881, 2884 >>, << 2893, 2893 >>, << 2901, 2902 >>,
    << 2914, 2915 >>, << 2946, 2946 >>, << 3008, 3008 >>, << 3021, 3021 >>,
    << 3072, 3072 >>, << 3076, 3076 >>, << 3132, 3132 >>, << 3134, 3136 >>,
    << 3142, 3144 >>, << 3146, 3149 >>, << 3157, 3158 >>, << 3170, 3171 >>,
    << 3201, 3201 >>, << 3260, 3260 >>, << 3263, 3263 >>, << 3270, 3270 >>,
    << 3276, 3277 >>, << 3298, 3299 >>, << 3328, 3329 >>, << 3387, 3388 >>,
    << 3393, 3396 >>, << 3405, 3405 >>, << 3426, 3427 >>, << 3457, 3457 >>,
    << 3530, 3530 >>, << 3538, 3540 >>, << 3542, 3542 >>, << 3633, 3633 >>,
    << 3636, 3642 >>, << 3654, 3662 >>, << 3761, 3761 >>, << 3764, 3772 >>,
    << 3782, 3782 >>, << 3784, 3789 >>, << 3864, 3865 >>, << 3893, 3893 >>,
    << 3895, 3895 >>, << 3897, 3897 >>, << 3953, 3966 >>, << 3968, 3972 >>,
    << 3974, 3975 >>, << 3981, 3991 >>, << 3993, 4028 >>, << 4038, 4038 >>,
    << 4141, 4144 >>, << 4146, 4151 >>, << 4153, 4154 >>, << 4157, 4158 >>,
    << 4184, 4185 >>, << 4190, 4192 >>, << 4209, 4212 >>, << 4226, 4226 >>,
    << 4229, 4230 >>, << 4237, 4237 >>, << 4253, 4253 >>, << 4348, 4348 >>,
    << 4957, 4959 >>, << 5906, 5908 >>, << 5938, 5939 >>, << 5970, 5971 >>,
    << 6002, 6003 >>, << 6068, 6069 >>, << 6071, 6077 >>, << 6086, 6086 >>,
    << 6089, 6099 >>, << 6103, 6103 >>, << 6109, 6109 >>, << 6155, 6159 >>,
    << 6211, 6211 >>, << 6277, 6278 >>, << 6313, 6313 >>, << 6432, 6434 >>,
    << 6439, 6440 >>, << 6450, 6450 >>, << 6457, 6459 >>, << 6679, 6680 >>,
    << 6683, 6683 >>, << 6742, 6742 >>, << 6744, 6750 >>, << 6752, 6752 >>,
    << 6754, 6754 >>, << 6757, 6764 >>, << 6771, 6780 >>, << 6783, 6783 >>,
    << 6823, 6823 >>, << 6832, 6862 >>, << 6912, 6915 >>, << 6964, 6964 >>,
    << 6966, 6970 >>, << 6972, 6972 >>, << 6978, 6978 >>, << 7019, 7027 >>,
    << 7040, 7041 >>, << 7074, 7077 >>, << 7080, 7081 >>, << 7083, 7085 >>,
    << 7142, 7142 >>, << 7144, 7145 >>, << 7149, 7149 >>, << 7151, 7153 >>,
    << 7212, 7219 >>, << 7222, 7223 >>, << 7288, 7293 >>, << 7376, 7378 >>,
    << 7380, 7392 >>, << 7394, 7400 >>, << 7405, 7405 >>, << 7412, 7412 >>,
    << 7416, 7417 >>, << 7468, 7530 >>, << 7544, 7544 >>, << 7579, 7679 >>,
    << 8125, 8125 >>, << 8127, 8129 >>, << 8141, 8143 >>, << 8157, 8159 >>,
    << 8173, 8175 >>, << 8189, 8190 >>, << 8203, 8207 >>, << 8216, 8217 >>,
    << 8228, 8228 >>, << 8231, 8231 >>, << 8234, 8238 >>, << 8288, 8292 >>,
    << 8294, 8303 >>, << 8305, 8305 >>, << 8319, 8319 >>, << 8336, 8348 >>,
    << 8400, 8432 >>, << 11388, 11389 >>, << 11503, 11505 >>, << 11631, 11631 >>,
    << 11647, 11647 >>, << 11744, 11775 >>, << 11823, 11823 >>, << 12293, 12293 >>,
    << 12330, 12333 >>, << 12337, 12341 >>, << 12347, 12347 >>, << 12441, 12446 >>,
    << 12540, 12542 >>, << 40981, 40981 >>, << 42232, 42237 >>, << 42508, 42508 >>,
    << 42607, 42610 >>, << 42612, 42621 >>, << 42623, 42623 >>, << 42652, 42655 >>,
    << 42736, 42737 >>, << 42752, 42785 >>, << 42864, 42864 >>, << 42888, 42890 >>,
    << 42994, 42996 >>, << 43000, 43001 >>, << 43010, 43010 >>, << 43014, 43014 >>,
    << 43019, 43019 >>, << 43045, 43046 >>, << 43052, 43052 >>, << 43204, 43205 >>,
    << 43232, 43249 >>, << 43263, 43263 >>, << 43302, 43309 >>, << 43335, 43345 >>,
    << 43392, 43394 >>, << 43443, 43443 >>, << 43446, 43449 >>, << 43452, 43453 >>,
    << 43471, 43471 >>, << 43493, 43494 >>, << 43561, 43566 >>, << 43569, 43570 >>,
    << 43573, 43574 >>, << 43587, 43587 >>, << 43596, 43596 >>, << 43632, 43632 >>,
    << 43644, 43644 >>, << 43696, 43696 >>, << 43698, 43700 >>, << 43703, 43704 >>,
    << 43710, 43711 >>, << 43713, 43713 >>, << 43741, 43741 >>, << 43756, 43757 >>,
    << 43763, 43764 >>, << 43766, 43766 >>, << 43867, 43871 >>, << 43881, 43883 >>,
    << 44005, 44005 >>, << 44008, 44008 >>, << 44013, 44013 >>, << 64286, 64286 >>,
    << 64434, 64450 >>, << 65024, 65039 >>, << 65043, 65043 >>, << 65056, 65071 >>,
    << 65106, 65106 >>, << 65109, 65109 >>, << 65279, 65279 >>, << 65287, 65287 >>,
    << 65294, 65294 >>, << 65306, 65306 >>, << 65342, 65342 >>, << 65344, 65344 >>,
    << 65392, 65392 >>, << 65438, 65439 >>, << 65507, 65507 >>, << 65529, 65531 >>,
    << 66045, 66045 >>, << 66272, 66272 >>, << 66422, 66426 >>, << 67456, 67461 >>,
    << 67463, 67504 >>, << 67506, 67514 >>, << 68097, 68099 >>, << 68101, 68102 >>,
    << 68108, 68111 >>, << 68152, 68154 >>, << 68159, 68159 >>, << 68325, 68326 >>,
    << 68900, 68903 >>, << 69291, 69292 >>, << 69446, 69456 >>, << 69506, 69509 >>,
    << 69633, 69633 >>, << 69688, 69702 >>, << 69744, 69744 >>, << 69747, 69748 >>,
    << 69759, 69761 >>, << 69811, 69814 >>, << 69817, 69818 >>, << 69821, 69821 >>,
    << 69826, 69826 >>, << 69837, 69837 >>, << 69888, 69890 >>, << 69927, 69931 >>,
    << 69933, 69940 >>, << 70003, 70003 >>, << 70016, 70017 >>, << 70070, 70078 >>,
    << 70089, 70092 >>, << 70095, 70095 >>, << 70191, 70193 >>, << 70196, 70196 >>,
    << 70198, 70199 >>, << 70206, 70206 >>, << 70367, 70367 >>, << 70371, 70378 >>,
    << 70400, 70401 >>, << 70459, 70460 >>, << 70464, 70464 >>, << 70502, 70508 >>,
    << 70512, 70516 >>, << 70712, 70719 >>, << 70722, 70724 >>, << 70726, 70726 >>,
    << 70750, 70750 >>, << 70835, 70840 >>, << 70842, 70842 >>, << 70847, 70848 >>,
    << 70850, 70851 >>, << 71090, 71093 >>, << 71100, 71101 >>, << 71103, 71104 >>,
    << 71132, 71133 >>, << 71219, 71226 >>, << 71229, 71229 >>, << 71231, 71232 >>,
    << 71339, 71339 >>, << 71341, 71341 >>, << 71344, 71349 >>, << 71351, 71351 >>,
    << 71453, 71455 >>, << 71458, 71461 >>, << 71463, 71467 >>, << 71727, 71735 >>,
    << 71737, 71738 >>, << 71995, 71996 >>, << 71998, 71998 >>, << 72003, 72003 >>,
    << 72148, 72151 >>, << 72154, 72155 >>, << 72160, 72160 >>, << 72193, 72202 >>,
    << 72243, 72248 >>, << 72251, 72254 >>, << 72263, 72263 >>, << 72273, 72278 >>,
    << 72281, 72283 >>, << 72330, 72342 >>, << 72344, 72345 >>, << 72752, 72758 >>,
    << 72760, 72765 >>, << 72767, 72767 >>, << 72850, 72871 >>, << 72874, 72880 >>,
    << 72882, 72883 >>, << 72885, 72886 >>, << 73009, 73014 >>, << 73018, 73018 >>,
    << 73020, 73021 >>, << 73023, 73029 >>, << 73031, 73031 >>, << 73104, 73105 >>,
    << 73109, 73109 >>, << 73111, 73111 >>, << 73459, 73460 >>, << 78896, 78904 >>,
    << 92912, 92916 >>, << 92976, 92982 >>, << 92992, 92995 >>, << 94031, 94031 >>,
    << 94095, 94111 >>, << 94176, 94177 >>, << 94179, 94180 >>, << 110576, 110579 >>,
    << 110581, 110587 >>, << 110589, 110590 >>, << 113821, 113822 >>,
    << 113824, 113827 >>, << 118528, 118573 >>, << 118576, 118598 >>,
    << 119143, 119145 >>, << 119155, 119170 >>, << 119173, 119179 >>,
    << 119210, 119213 >>, << 119362, 119364 >>, << 121344, 121398 >>,
    << 121403, 121452 >>, << 121461, 121461 >>, << 121476, 121476 >>,
    << 121499, 121503 >>, << 121505, 121519 >>, << 122880, 122886 >>,
    << 122888, 122904 >>, << 122907, 122913 >>, << 122915, 122916 >>,
    << 122918, 122922 >>, << 123184, 123197 >>, << 123566, 123566 >>,
    << 123628, 123631 >>, << 125136, 125142 >>, << 125252, 125259 >>,
    << 127995, 127999 >>, << 917505, 917505 >>, << 917536, 917631 >>, << 917760, 917999 >> >>

\* the cased characters that are not case-ignorable, as ranges first..last
Cased == <<
    << 65, 90 >>, << 97, 122 >>, << 170, 170 >>, << 181, 181 >>, << 186, 186 >>,
    << 192, 214 >>, << 216, 246 >>, << 248, 442 >>, << 444, 447 >>, << 452, 659 >>,
    << 661, 687 >>, << 880, 883 >>, << 886, 887 >>, << 891, 893 >>, << 895, 895 >>,
    << 902, 902 >>, << 904, 906 >>, << 908, 908 >>, << 910, 929 >>, << 931, 1013 >>,
    << 1015, 1153 >>, << 1162, 1327 >>, << 1329, 1366 >>, << 1376, 1416 >>,
    << 4256, 4293 >>, << 4295, 4295 >>, << 4301, 4301 >>, << 4304, 4346 >>,
    << 4349, 4351 >>, << 5024, 5109 >>, << 5112, 5117 >>, << 7296, 7304 >>,
    << 7312, 7354 >>, << 7357, 7359 >>, << 7424, 7467 >>, << 7531, 7543 >>,
    << 7545, 7578 >>, << 7680, 7957 >>, << 7960, 7965 >>, << 7968, 8005 >>,
    << 8008, 8013 >>, << 8016, 8023 >>, << 8025, 8025 >>, << 8027, 8027 >>,
    << 8029, 8029 >>, << 8031, 8061 >>, << 8064, 8116 >>, << 8118, 8124 >>,
    << 8126, 8126 >>, << 8130, 8132 >>, << 8134, 8140 >>, << 8144, 8147 >>,
    << 8150, 8155 >>, << 8160, 8172 >>, << 8178, 8180 >>, << 8182, 8188 >>,
    << 8450, 8450 >>, << 8455, 8455 >>, << 8458, 8467 >>, << 8469, 8469 >>,
    << 8473, 8477 >>, << 8484, 8484 >>, << 8486, 8486 >>, << 8488, 8488 >>,
    << 8490, 8493 >>, << 8495, 8500 >>, << 8505, 8505 >>, << 8508, 8511 >>,
    << 8517, 8521 >>, << 8526, 8526 >>, << 8544, 8575 >>, << 8579, 8580 >>,
    << 9398, 9449 >>, << 11264, 11387 >>, << 11390, 11492 >>, << 11499, 11502 >>,
    << 11506, 11507 >>, << 11520, 11557 >>, << 11559, 11559 >>, << 11565, 11565 >>,
    << 42560, 42605 >>, << 42624, 42651 >>, << 42786, 42863 >>, << 42865, 42887 >>,
    << 42891, 42894 >>, << 42896, 42954 >>, << 42960, 42961 >>, << 42963, 42963 >>,
    << 42965, 42969 >>, << 42997, 42998 >>, << 43002, 43002 >>, << 43824, 43866 >>,
    << 43872, 43880 >>, << 43888, 43967 >>, << 64256, 64262 >>, << 64275, 64279 >>,
    << 65313, 65338 >>, << 65345, 65370 >>, << 66560, 66639 >>, << 66736, 66771 >>,
    << 66776, 66811 >>, << 66928, 66938 >>, << 66940, 66954 >>, << 66956, 66962 >>,
    << 66964, 66965 >>, << 66967, 66977 >>, << 66979, 66993 >>, << 66995, 67001 >>,
    << 67003, 67004 >>, << 68736, 68786 >>, << 68800, 68850 >>, << 71840, 71903 >>,
    << 93760, 93823 >>, << 119808, 119892 >>, << 119894, 119964 >>, << 119966, 119967 >>,
    << 119970, 119970 >>, << 119973, 119974 >>, << 119977, 119980 >>,
    << 119982, 119993 >>, << 119995, 119995 >>, << 119997, 120003 >>,
    << 120005, 120069 >>, << 120071, 120074 >>, << 120077, 120084 >>,
    << 120086, 120092 >>, << 120094, 120121 >>, << 120123, 120126 >>,
    << 120128, 120132 >>, << 120134, 120134 >>, << 120138, 120144 >>,
    << 120146, 120485 >>, << 120488, 120512 >>, << 120514, 120538 >>,
    << 120540, 120570 >>, << 120572, 120596 >>, << 120598, 120628 >>,
    << 120630, 120654 >>, << 120656, 120686 >>, << 120688, 120712 >>,
    << 120714, 120744 >>, << 120746, 120770 >>, << 120772, 120779 >>,
    << 122624, 122633 >>, << 122635, 122654 >>, << 125184, 125251 >>,
    << 127280, 127305 >>, << 127312, 127337 >>, << 127344, 127369 >> >>

\* the index of the last entry of table T that begins at or before c, 0 when
\* there is none; lo..hi are the candidates
RECURSIVE Floor(_, _, _, _)
Floor(T, c, lo, hi) ==
    IF lo >= hi THEN lo
    ELSE LET mid == (lo + hi + 1) \div 2
         IN  IF T[mid][1] <= c THEN Floor(T, c, mid, hi) ELSE Floor(T, c, lo, mid - 1)

\* c lies in one of the ranges of T
InRanges(T, c) ==
    LET k == Floor(T, c, 0, Len(T))
    IN  k > 0 /\ c <= T[k][2]

IsSpace(c) == c \in Whitespace

\* \w of the re module
IsWordChar(c) == InRanges(WordChars, c)

IsCaseIgnorable(c) == InRanges(CaseIgnorable, c)

IsCased(c) == InRanges(Cased, c)

\* c.lower() when it is one character and does not depend on the context
LowerChar(c) ==
    IF c < 128 THEN (IF c >= 65 /\ c <= 90 THEN c + 32 ELSE c)
    ELSE LET k == Floor(Lowercase, c, 0, Len(Lowercase))
         IN  IF k > 0 /\ c <= Lowercase[k][2] /\ (c - Lowercase[k][1]) % Lowercase[k][3] = 0
             THEN c + Lowercase[k][4]
             ELSE c

\* the one character whose str.lower() is two characters, and the two
DottedCapitalI == 304
DottedSmallI == << 105, 775 >>

CapitalSigma == 931
SmallSigma == 963
FinalSigma == 962

\* the capital sigma at s[i] ends a word: the nearest character before it
\* that is not case-ignorable is cased, the nearest one after it is not.
\* back and ahead are the distances to the two, i and Len(s) - i + 1 when
\* there is no such character
IsFinalSigma(s, i) ==
    LET rest  == Len(s) - i + 1
        back  == CHOOSE d \in 1..i :
                     /\ d = i \/ ~ IsCaseIgnorable(s[i - d])
                     /\ \A k \in 1..(d - 1) : IsCaseIgnorable(s[i - k])
        ahead == CHOOSE d \in 1..rest :
                     /\ d = rest \/ ~ IsCaseIgnorable(s[i + d])
                     /\ \A k \in 1..(d - 1) : IsCaseIgnorable(s[i + k])
    IN  /\ back < i
        /\ IsCased(s[i - back])
        /\ ahead < rest => ~ IsCased(s[i + ahead])

\* what s.lower() has in the place of s[i]
LowerAt(s, i) ==
    IF s[i] = DottedCapitalI THEN DottedSmallI
    ELSE IF s[i] = CapitalSigma
    THEN << (IF IsFinalSigma(s, i) THEN FinalSigma ELSE SmallSigma) >>
    ELSE << LowerChar(s[i]) >>

lower(s) == Flatten([i \in 1..Len(s) |-> LowerAt(s, i)])

lstrip(s) ==
    IF \A i \in 1..Len(s) : IsSpace(s[i]) THEN << >>
    ELSE SubSeq(s,
                CHOOSE i \in 1..Len(s) : ~ IsSpace(s[i]) /\ \A j \in 1..(i - 1) : IsSpace(s[j]),
                Len(s))

rstrip(s) ==
    IF \A i \in 1..Len(s) : IsSpace(s[i]) THEN << >>
    ELSE SubSeq(s, 1,
                CHOOSE i \in 1..Len(s) :
                    ~ IsSpace(s[i]) /\ \A j \in (i + 1)..Len(s) : IsSpace(s[j]))

strip(s) == lstrip(rstrip(s))

startswith(s, p) == Len(s) >= Len(p) /\ SubSeq(s, 1, Len(p)) = p

\* p in s
contains(s, p) == \E k \in 0..(Len(s) - Len(p)) : SubSeq(s, k + 1, k + Len(p)) = p

\* number of "#" characters s starts with
LeadingHashes(s) ==
    CHOOSE n \in 0..Len(s) :
        /\ \A j \in 1..n : s[j] = Hash
        /\ n < Len(s) => s[n + 1] # Hash

\* re.sub(r"\s+", " ", s)
CollapseWhitespace(s) ==
    LET kept == SelectSeq(Indices(1, Len(s)),
                          LAMBDA i : ~ IsSpace(s[i]) \/ i = 1 \/ ~ IsSpace(s[i - 1]))
    IN  [k \in 1..Len(kept) |-> IF IsSpace(s[kept[k]]) THEN Space ELSE s[kept[k]]]

\* s.replace("\r\n", "\n")
ReplaceCRLF(s) ==
    LET kept == SelectSeq(Indices(1, Len(s)),
                          LAMBDA i : ~ (s[i] = CR /\ i < Len(s) /\ s[i + 1] = LF))
    IN  [k \in 1..Len(kept) |-> s[kept[k]]]

\* s.replace("\r", "\n")
ReplaceCR(s) == [i \in 1..Len(s) |-> IF s[i] = CR THEN LF ELSE s[i]]

\* s.split("\n")
split(s) ==
    LET cuts == SelectSeq(Indices(1, Len(s)), LAMBDA i : s[i] = LF)
        at   == << 0 >> \o cuts \o << Len(s) + 1 >>
    IN  [k \in 1..(Len(cuts) + 1) |-> SubSeq(s, at[k] + 1, at[k + 1] - 1)]

\* sep.join(ls)
join(ls, sep) ==
    Flatten([k \in 1..(2 * Len(ls) - 1) |-> IF k % 2 = 1 THEN ls[(k + 1) \div 2] ELSE sep])

(***************************************************************************)
(* Constants of the cleaner.                                               *)
(***************************************************************************)
None == -1

FOOTER_TITLES == {
    Text("authors"),
    Text("author"),
    Text("license"),
    Text("maintainers"),
    Text("maintainer"),
    Text("contributing"),
    Text("contribution"),
    Text("support"),
    Text("changelog"),
    Text("additional information"),
    Text("security") }

\* TitleWindow with the range one line too long
TitleWindowPlusOne == 12 + 1

\* title_index + 12 in the paragraph scan's range
TitleWindow == 12

\* the {1,6} of normalize_heading_title's pattern
MaxHeadingHashes == 6

(***************************************************************************)
(* Line classification.                                                    *)
(***************************************************************************)
is_badge_or_banner_line(line) ==
    LET stripped == strip(line)
    IN  IF stripped = << >> THEN FALSE
        ELSE IF startswith(stripped, Text("[![")) \/ startswith(stripped, Text("![")) THEN TRUE
        ELSE IF contains(stripped, Text("shields.io")) THEN TRUE
        ELSE IF /\ contains(lower(stripped), Text("badge"))
                /\ \/ contains(stripped, Text("http://"))
                   \/ contains(stripped, Text("https://"))
        THEN TRUE
        ELSE FALSE

\* the word of the usage-heading pattern
UsageWord == Text("usage")

\* the characters that match each letter of UsageWord under re.IGNORECASE
IgnoreCase == <<
    { 85, 117 }, { 83, 115, 383 }, { 65, 97 }, { 71, 103 }, { 69, 101 } >>

\* re.match(r"^##\s+usage\b", s, re.IGNORECASE) is not None
usage_heading(s) ==
    /\ startswith(s, Text("##"))
    /\ LET rest == SubSeq(s, 3, Len(s))
           word == lstrip(rest)
       IN  /\ Len(word) < Len(rest)
           /\ Len(word) >= Len(UsageWord)
           /\ \A k \in 1..Len(UsageWord) : word[k] \in IgnoreCase[k]
           /\ (Len(word) = Len(UsageWord) \/ ~ IsWordChar(word[Len(UsageWord) + 1]))

\* re.match(r"^##+\s+", s) is not None
heading_pattern(s) ==
    LET n == LeadingHashes(s)
    IN  n >= 2 /\ Len(s) > n /\ IsSpace(s[n + 1])

normalize_heading_title(line) ==
    LET n     == Min(LeadingHashes(line), MaxHeadingHashes)
        subbed == IF n >= 1 THEN lstrip(SubSeq(line, n + 1, Len(line))) ELSE line
    IN  CollapseWhitespace(lower(strip(subbed)))

(***************************************************************************)
(* The scans over the document.                                            *)
(***************************************************************************)
\* the first index at or after i of a line that is a title, None without one
FirstTitleFrom(ls, i) ==
    LET hits == SelectSeq(Indices(i, Len(ls) - 1),
                          LAMBDA k : startswith(strip(ls[k + 1]), Text("# ")))
    IN  IF hits = << >> THEN None ELSE hits[1]

find_first_title(ls) == FirstTitleFrom(ls, 0)

\* the loop of clean_readme that looks for the paragraph line under the title,
\* from index i to index stop - 1: the index at which it breaks, None when
\* the range is exhausted
ParagraphFrom(ls, i, stop) ==
    LET hits == SelectSeq(Indices(i, stop - 1),
                          LAMBDA k :
                              LET stripped == strip(ls[k + 1])
                              IN  /\ stripped # << >>
                                  /\ ~ startswith(stripped, << Hash >>)
                                  /\ ~ is_badge_or_banner_line(stripped))
    IN  IF hits = << >> THEN None ELSE hits[1]

ParagraphIndex(ls, t) ==
    IF t = None THEN None
    ELSE ParagraphFrom(ls, t + 1, Min(t + TitleWindow, Len(ls)))

TitleBlockOf(ls, t, p) ==
    IF t = None THEN << >>
    ELSE << rstrip(ls[t + 1]) >>
         \o (IF p = None THEN << >> ELSE << << >>, rstrip(ls[p + 1]) >>)

\* the first index at or after i of a usage heading, None without one
FirstUsageFrom(ls, i) ==
    LET hits == SelectSeq(Indices(i, Len(ls) - 1), LAMBDA k : usage_heading(strip(ls[k + 1])))
    IN  IF hits = << >> THEN None ELSE hits[1]

\* the first index at or after i of a "### " line, None without one
FirstLevel3From(ls, i) ==
    LET hits == SelectSeq(Indices(i, Len(ls) - 1),
                          LAMBDA k : startswith(strip(ls[k + 1]), Text("### ")))
    IN  IF hits = << >> THEN None ELSE hits[1]

\* find_content_start with its first two loops in the other order
FindContentStartLevel3First(ls, t) ==
    LET u == FirstUsageFrom(ls, 0)
        h == FirstLevel3From(ls, 0)
    IN  IF h # None THEN h
        ELSE IF u # None THEN u + 1
        ELSE IF t # None THEN t + 1
        ELSE 0

find_content_start(ls, t) ==
    LET u == FirstUsageFrom(ls, 0)
        h == FirstLevel3From(ls, 0)
    IN  IF u # None THEN u + 1
        ELSE IF h # None THEN h
        ELSE IF t # None THEN t + 1
        ELSE 0

\* find_content_end that never finds a footer heading
FindContentEndNoFooter(ls, i) == Len(ls)

find_content_end(ls, i) ==
    LET hits == SelectSeq(Indices(i, Len(ls) - 1),
                          LAMBDA k :
                              LET line == strip(ls[k + 1])
                              IN  /\ line # << >>
                                  /\ heading_pattern(line)
                                  /\ normalize_heading_title(line) \in FOOTER_TITLES)
    IN  IF hits = << >> THEN Len(ls) ELSE hits[1]

\* KeepBodyLine with the badge test left out
KeepBodyLineNoBadgeTest(stripped) == ~ usage_heading(stripped)

\* KeepBodyLine with the usage-heading test left out
KeepBodyLineNoUsageTest(stripped) == ~ is_badge_or_banner_line(stripped)

\* the body loop's test: the line is appended unless one of the two
\* `continue` statements is taken
KeepBodyLine(stripped) ==
    ~ is_badge_or_banner_line(stripped) /\ ~ usage_heading(stripped)

\* indices i in range(from, to) whose line the body loop keeps
KeptFrom(ls, i, to) ==
    SelectSeq(Indices(i, Min(to, Len(ls)) - 1), LAMBDA k : KeepBodyLine(strip(ls[k + 1])))

RstripLinesAt(ls, idx) == [k \in 1..Len(idx) |-> rstrip(ls[idx[k] + 1])]

(***************************************************************************)
(* compact_blank_lines                                                     *)
(***************************************************************************)
\* KeepBlank with the run limit off by one
KeepBlankUpToTwo(blank_run) == blank_run <= 2

\* the test that lets a blank line through
KeepBlank(blank_run) == blank_run <= 1

\* blank_run after the loop has counted the blank line i, when it was
\* blank_run before the first line; blank are the indices of the blank
\* lines, run the distance to the nearest line before i that is not blank,
\* i when there is none
BlankRunAt(blank, i, blank_run) ==
    LET run == CHOOSE d \in 1..i :
                   /\ d = i \/ (i - d) \notin blank
                   /\ \A k \in 1..(d - 1) : (i - k) \in blank
    IN  IF run = i THEN blank_run + i ELSE run

\* the for loop of compact_blank_lines
CompactLoop(ls, blank_run) ==
    LET blank == { i \in 1..Len(ls) : strip(ls[i]) = << >> }
        kept  == SelectSeq(Indices(1, Len(ls)),
                           LAMBDA i : i \in blank => KeepBlank(BlankRunAt(blank, i, blank_run)))
    IN  [k \in 1..Len(kept) |-> IF kept[k] \in blank THEN << >> ELSE rstrip(ls[kept[k]])]

PopLeadingBlank(ls) ==
    IF \A i \in 1..Len(ls) : ls[i] = << >> THEN << >>
    ELSE SubSeq(ls,
                CHOOSE i \in 1..Len(ls) : ls[i] # << >> /\ \A j \in 1..(i - 1) : ls[j] = << >>,
                Len(ls))

\* PopTrailingBlank with the second while loop left out
PopTrailingBlankSkipped(ls) == ls

PopTrailingBlank(ls) ==
    IF \A i \in 1..Len(ls) : ls[i] = << >> THEN << >>
    ELSE SubSeq(ls, 1,
                CHOOSE i \in 1..Len(ls) :
                    ls[i] # << >> /\ \A j \in (i + 1)..Len(ls) : ls[j] = << >>)

compact_blank_lines(ls) == PopTrailingBlank(PopLeadingBlank(CompactLoop(ls, 0)))

\* the list handed to compact_blank_lines
Assembled(tb, body) == IF tb # << >> THEN tb \o << << >> >> \o body ELSE body

\* "\n".join(output_lines) + "\n"
JoinOutput(ls) == join(ls, << LF >>) \o << LF >>

\* NormalizedLines with the two replace calls in the other order
NormalizedLinesCRFirst(text) == split(ReplaceCRLF(ReplaceCR(text)))

\* the first statement of clean_readme
NormalizedLines(text) == split(ReplaceCR(ReplaceCRLF(text)))

\* clean_readme as one function, the composition of its statements
clean_readme(text) ==
    LET ls   == NormalizedLines(text)
        t    == find_first_title(ls)
        p    == ParagraphIndex(ls, t)
        s    == find_content_start(ls, t)
        e    == find_content_end(ls, s)
        body == RstripLinesAt(ls, KeptFrom(ls, s, e))
    IN  JoinOutput(compact_blank_lines(Assembled(TitleBlockOf(ls, t, p), body)))

(***************************************************************************)
(* The documents the cleaner is run on.                                    *)
(***************************************************************************)
BlankLine == << >>
TitleLine == Text("# T")
TextLine == Text("p")
UsageLine == Text("## Usage")
Level3Line == Text("### s")
FooterLine == Text("## License")
BadgeLine == Text("![b")
SpaceLine == Text(" ")
PaddedTextLine == Text(" p ")
SevenHashLine == Text("####### License")
LongFooterLine == Text("## License and Authors")
BadgeTitleLine == Text("# T shields.io")
UsagesLine == Text("## usages")
HashTitleFooterLine == Text("## # License")
BadgeUrlLine == Text("Badge http://x")
ShoutedFooterLine == Text("##  LICENSE ")
ShoutedUsageLine == Text(" ## USAGE:")

\* "##", a form feed, "License"
FormFeedFooterLine == Text("##") \o << 12 >> \o Text("License")
\* "##", a vertical tab, "Usage"
VerticalTabUsageLine == Text("##") \o << 11 >> \o Text("Usage")
\* a no-break space
NoBreakSpaceLine == << 160 >>
\* "## U", a long s (U+017F), "age"
LongSUsageLine == Text("## U") \o << 383 >> \o Text("age")
\* "## usage" and an e with acute (U+00E9)
AccentedUsageLine == Text("## usage") \o << 233 >>
\* "## usage" and the ideograph U+4E2D
IdeographUsageLine == Text("## usage") \o << 20013 >>
\* "## L", a capital I with dot above (U+0130), "CENSE"
DottedFooterLine == Text("## L") \o << DottedCapitalI >> \o Text("CENSE")
\* footer headings of level 3 and of level 6
Level3FooterLine == Text("### License")
SixHashFooterLine == Text("###### Authors")
\* "## ", a capital alpha and a capital sigma
SigmaHeadingLine == Text("## ") \o << 913, CapitalSigma >>

CoreLines == { BlankLine, TitleLine, TextLine, UsageLine, Level3Line, FooterLine, BadgeLine }

AllLines == CoreLines \cup
    { SpaceLine, PaddedTextLine, SevenHashLine, BadgeTitleLine, BadgeUrlLine,
      ShoutedFooterLine, ShoutedUsageLine }

\* lines that one test of a pattern decides: what follows the heading word,
\* whitespace other than the blank, letters above U+007F, the number of "#"
WideLines ==
    { LongFooterLine, UsagesLine, HashTitleFooterLine,
      FormFeedFooterLine, VerticalTabUsageLine, NoBreakSpaceLine, LongSUsageLine,
      AccentedUsageLine, IdeographUsageLine, DottedFooterLine, SigmaHeadingLine,
      Level3FooterLine, SixHashFooterLine, SevenHashLine, TitleLine, TextLine }

\* longest document of CoreLines; documents of AllLines are one line shorter,
\* documents of WideLines two lines shorter
MaxLines == 4

\* longest run of blank lines put between two lines of CoreLines
MaxPad == 12

\* number of times clean_readme is applied, each time to the previous output
MaxPasses == 2

SeqsUpTo(S, n) == UNION { [1..k -> S] : k \in 1..n }

Blanks(k) == [i \in 1..k |-> BlankLine]

PaddedDocs == { << a >> \o Blanks(k) \o << b >> : a \in CoreLines, b \in CoreLines, k \in 0..MaxPad }

CoreDocs == SeqsUpTo(CoreLines, MaxLines)

WideDocs == SeqsUpTo(WideLines, MaxLines - 2)

Docs == CoreDocs \cup SeqsUpTo(AllLines, MaxLines - 1) \cup PaddedDocs \cup WideDocs

LineEndings == { << LF >>, << CR, LF >>, << CR >> }

\* every document with LF line endings, the core documents with each line ending
IsInput(d, sep) == sep = << LF >> \/ d \in CoreDocs

(***************************************************************************)
(* clean_readme, statement by statement.                                   *)
(***************************************************************************)
\* run is not being executed
RunIdle ==
    /\ repos = << >>
    /\ include_archived = FALSE
    /\ repo_index = 0
    /\ repository_count = 0
    /\ processed = << >>
    /\ skipped = << >>
    /\ fetched = {}
    /\ dirs = {}
    /\ files = {}
    /\ run_pc = "idle"

Init ==
    /\ \E d \in Docs, sep \in LineEndings :
           /\ IsInput(d, sep)
           /\ markdown_text = join(d, sep)
           /\ src_lines = d
           /\ line_ending = sep
    /\ lines = << >>
    /\ title_index = None
    /\ para_index = None
    /\ title_block = << >>
    /\ start = 0
    /\ end = 0
    /\ body_src = << >>
    /\ filtered_body = << >>
    /\ output_lines = << >>
    /\ output = << >>
    /\ pc = "split"
    /\ pass = 1
    /\ first_output = << >>
    /\ RunIdle

SplitLines ==
    /\ pc = "split"
    /\ lines' = NormalizedLines(markdown_text)
    /\ pc' = "title"
    /\ UNCHANGED << markdown_text, title_index, para_index, title_block, start, end,
                    body_src, filtered_body, output_lines, output, pass, first_output >>
    /\ UNCHANGED inputVars
    /\ UNCHANGED runVars

BuildTitleBlock ==
    /\ pc = "title"
    /\ title_index' = find_first_title(lines)
    /\ para_index' = ParagraphIndex(lines, title_index')
    /\ title_block' = TitleBlockOf(lines, title_index', para_index')
    /\ pc' = "start"
    /\ UNCHANGED << markdown_text, lines, start, end, body_src, filtered_body,
                    output_lines, output, pass, first_output >>
    /\ UNCHANGED inputVars
    /\ UNCHANGED runVars

FindContentStart ==
    /\ pc = "start"
    /\ start' = find_content_start(lines, title_index)
    /\ pc' = "end"
    /\ UNCHANGED << markdown_text, lines, title_index, para_index, title_block, end,
                    body_src, filtered_body, output_lines, output, pass, first_output >>
    /\ UNCHANGED inputVars
    /\ UNCHANGED runVars

FindContentEnd ==
    /\ pc = "end"
    /\ end' = find_content_end(lines, start)
    /\ pc' = "filter"
    /\ UNCHANGED << markdown_text, lines, title_index, para_index, title_block, start,
                    body_src, filtered_body, output_lines, output, pass, first_output >>
    /\ UNCHANGED inputVars
    /\ UNCHANGED runVars

FilterBody ==
    /\ pc = "filter"
    /\ body_src' = KeptFrom(lines, start, end)
    /\ filtered_body' = RstripLinesAt(lines, body_src')
    /\ pc' = "compact"
    /\ UNCHANGED << markdown_text, lines, title_index, para_index, title_block, start,
                    end, output_lines, output, pass, first_output >>
    /\ UNCHANGED inputVars
    /\ UNCHANGED runVars

CompactAndJoin ==
    /\ pc = "compact"
    /\ output_lines' = compact_blank_lines(Assembled(title_block, filtered_body))
    /\ output' = JoinOutput(output_lines')
    /\ pc' = "done"
    /\ UNCHANGED << markdown_text, lines, title_index, para_index, title_block, start,
                    end, body_src, filtered_body, pass, first_output >>
    /\ UNCHANGED inputVars
    /\ UNCHANGED runVars

\* clean_readme called on what it returned
CleanAgain ==
    /\ pc = "done"
    /\ pass < MaxPasses
    /\ markdown_text' = output
    /\ first_output' = output
    /\ pass' = pass + 1
    /\ lines' = << >>
    /\ title_index' = None
    /\ para_index' = None
    /\ title_block' = << >>
    /\ start' = 0
    /\ end' = 0
    /\ body_src' = << >>
    /\ filtered_body' = << >>
    /\ output_lines' = << >>
    /\ output' = << >>
    /\ pc' = "split"
    /\ src_lines' = << >>
    /\ line_ending' = << LF >>
    /\ UNCHANGED runVars

Next ==
    \/ SplitLines
    \/ BuildTitleBlock
    \/ FindContentStart
    \/ FindContentEnd
    \/ FilterBody
    \/ CompactAndJoin
    \/ CleanAgain

Spec == Init /\ [][Next]_vars

(***************************************************************************)
(* run: the loop over the listed repositories and the two writes after it. *)
(* Paths are texts, relative to root unless said otherwise.                *)
(***************************************************************************)
\* repo_info.get("name") of an entry without a name
NoName == << >>

RepoNames == { Text("a"), Text("b") }

\* longest repository list
MaxRepos == 3

\* the entries of the list; the loop reads nothing but the name of an
\* entry without a name
RepoEntries ==
    [name : RepoNames, archived : BOOLEAN] \cup {[name |-> NoName, archived |-> FALSE]}

\* repository lists: the names that are present are distinct
RepoLists ==
    { l \in UNION { [1..k -> RepoEntries] : k \in 0..MaxRepos } :
        \A i, j \in 1..Len(l) :
            (i # j /\ l[i].name # NoName) => l[i].name # l[j].name }

\* run's arguments org and root
org == Text("org")
root == Text("/work")

API_BASE == Text("https://api.github.com")

\* a / b of pathlib, for a single path component b
PathJoin(a, b) == a \o Text("/") \o b

\* str(n) of an int n >= 0
RECURSIVE Decimal(_)
Decimal(n) == IF n < 10 THEN << 48 + n >> ELSE Decimal(n \div 10) \o << 48 + (n % 10) >>

\* root / "downloads", relative to root
downloads_dir == Text("downloads")

\* the numbers of the extractN directories that downloads holds when run starts
existing_numbers == {}

\* max(S, default=default)
max(S, default) == IF S = {} THEN default ELSE CHOOSE m \in S : \A x \in S : x <= m

next_num == max(existing_numbers, 0) + 1

\* out_dir of next_extract_directory, relative to root
out_dir == PathJoin(downloads_dir, Text("extract") \o Decimal(next_num))

\* str(output_root)
output_root == PathJoin(root, out_dir)

\* int(time.time()) when summary is built
generated_at == 1700000000

\* url of fetch_readme
readme_url(repo) == API_BASE \o Text("/repos/") \o org \o Text("/") \o repo \o Text("/readme")

\* error.code and the decoded body of a 403 answer that is no rate limit:
\* "Accès refusé", U+1F600 and a line break
ErrorCode == 403
ErrorBody ==
    Text("Acc") \o << 232 >> \o Text("s refus") \o << 233, Space, 128512, LF >>

\* str(error) of what fetch_readme raises for repo: the payload has no
\* content (fetch_readme), the API answers 403 (api_request)
FetchErrors(repo) ==
    { Text("No README found for ") \o org \o Text("/") \o repo,
      Text("HTTP ") \o Decimal(ErrorCode) \o Text(" for ") \o readme_url(repo) \o Text(": ")
          \o ErrorBody }

\* the decoded README: "# T", "p", "## Usage" and a line of U+00E9, U+4E2D
\* and U+1F600
ReadmeText == join(<< TitleLine, TextLine, UsageLine, << 233, 20013, 128512 >> >>, << LF >>)

\* what fetch_readme returns when it does not raise
FetchedReadmes == { << ReadmeText, Text("README.md") >> }

OriginalFile == Text("README.original.md")
CleanedFile == Text("README.cleaned.md")
SummaryFile == Text("summary.json")
IndexFile == Text("README.md")

\* repo_dir, relative to root
RepoDir(repo) == PathJoin(out_dir, repo)

\* str(path.relative_to(root)) of a file of repository repo
RelativePath(repo, file) == PathJoin(RepoDir(repo), file)

\* the bytes of a character in UTF-8; a surrogate has none
Utf8(c) ==
    CASE c < 128 -> << c >>
      [] c >= 128 /\ c < 2048 -> << 192 + (c \div 64), 128 + (c % 64) >>
      [] (c >= 2048 /\ c < 55296) \/ (c >= 57344 /\ c < 65536) ->
            << 224 + (c \div 4096), 128 + ((c \div 64) % 64), 128 + (c % 64) >>
      [] c >= 65536 ->
            << 240 + (c \div 262144), 128 + ((c \div 4096) % 64),
               128 + ((c \div 64) % 64), 128 + (c % 64) >>

\* text.encode("utf-8") does not raise
Encodable(text) == \A i \in 1..Len(text) : text[i] < 55296 \/ text[i] > 57343

\* text.encode("utf-8")
encode(text) == Flatten([i \in 1..Len(text) |-> Utf8(text[i])])

\* path.parent.mkdir(parents=True, exist_ok=True), the parent of dir existing
mkdir(ds, dir) == ds \cup {dir}

\* the files after a write has left the file at path with bytes
FileWith(fs, path, bytes) ==
    { f \in fs : f.path # path } \cup {[path |-> path, content |-> bytes]}

\* the files after write_text(path, text) has returned
write_text(fs, path, text) == FileWith(fs, path, encode(text))

\* what a write_text(dir / file, text) that raises can leave, as directories
\* and files: all as it was (mkdir raised), the directory without the file
\* (open raised), or the file holding the first k bytes of the text, fewer
\* than all (the write raised); a text that cannot be encoded leaves the
\* file empty
FailedWrites(ds, fs, dir, file, text) ==
    LET bytes == IF Encodable(text) THEN encode(text) ELSE << >>
        cuts  == IF Encodable(text) THEN 0..(Len(bytes) - 1) ELSE {0}
    IN  { << ds, fs >>, << mkdir(ds, dir), fs >> }
            \cup { << mkdir(ds, dir), FileWith(fs, PathJoin(dir, file), SubSeq(bytes, 1, k)) >> :
                     k \in cuts }

(***************************************************************************)
(* json.dumps(summary, indent=2) and the index.                            *)
(***************************************************************************)
HexDigits == Text("0123456789abcdef")

\* \uXXXX
UnicodeEscape(n) ==
    Text("\\u") \o << HexDigits[(n \div 4096) + 1], HexDigits[((n \div 256) % 16) + 1],
                      HexDigits[((n \div 16) % 16) + 1], HexDigits[(n % 16) + 1] >>

\* a character of a str between the quotes of its JSON form (ensure_ascii)
JsonEscapeChar(c) ==
    IF c = 34 THEN Text("\\\"")
    ELSE IF c = 92 THEN Text("\\\\")
    ELSE IF c = LF THEN Text("\\n")
    ELSE IF c = CR THEN Text("\\r")
    ELSE IF c = 9 THEN Text("\\t")
    ELSE IF c = 8 THEN Text("\\b")
    ELSE IF c = 12 THEN Text("\\f")
    ELSE IF c >= 32 /\ c <= 126 THEN << c >>
    ELSE IF c < 65536 THEN UnicodeEscape(c)
    ELSE UnicodeEscape(55296 + ((c - 65536) \div 1024))
             \o UnicodeEscape(56320 + ((c - 65536) % 1024))

\* the characters of a str between the quotes of its JSON form
JsonEscape(s) == Flatten([i \in 1..Len(s) |-> JsonEscapeChar(s[i])])

\* a str as JSON
JsonString(s) == Text("\"") \o JsonEscape(s) \o Text("\"")

\* an int as JSON
JsonInt(n) == Decimal(n)

Indent(n) == [i \in 1..n |-> Space]

\* "key": value
JsonMember(key, value) == JsonString(Text(key)) \o Text(": ") \o value

\* a dict or a list whose items are the given texts, at the given indentation
JsonBlock(open, close, items, level) ==
    IF items = << >> THEN Text(open) \o Text(close)
    ELSE Text(open) \o << LF >>
         \o join([k \in 1..Len(items) |-> Indent(level + 2) \o items[k]], Text(",") \o << LF >>)
         \o << LF >> \o Indent(level) \o Text(close)

ProcessedJson(p) ==
    JsonBlock("{", "}",
              << JsonMember("repo", JsonString(p.repo)),
                 JsonMember("readme_path", JsonString(p.readme_path)),
                 JsonMember("original_file", JsonString(p.original_file)),
                 JsonMember("cleaned_file", JsonString(p.cleaned_file)) >>, 4)

SkippedJson(s) ==
    JsonBlock("{", "}",
              << JsonMember("repo", JsonString(s.repo)),
                 JsonMember("reason", JsonString(s.reason)) >>, 4)

\* json.dumps(summary, indent=2)
SummaryText ==
    JsonBlock("{", "}",
              << JsonMember("organization", JsonString(org)),
                 JsonMember("output", JsonString(output_root)),
                 JsonMember("repository_count", JsonInt(repository_count)),
                 JsonMember("processed",
                            JsonBlock("[", "]",
                                      [k \in 1..Len(processed) |-> ProcessedJson(processed[k])],
                                      2)),
                 JsonMember("skipped",
                            JsonBlock("[", "]",
                                      [k \in 1..Len(skipped) |-> SkippedJson(skipped[k])],
                                      2)),
                 JsonMember("generated_at", JsonInt(generated_at)) >>, 0)

\* `s`
Quoted(s) == << Backquote >> \o s \o << Backquote >>

\* the three characters between a processed repository and its cleaned
\* file: U+00E2, U+2020, U+2019
ArrowText == << 226, 8224, 8217 >>

index_lines ==
    << Text("# README extraction for ") \o Quoted(org),
       << >>,
       Text("- Total repos discovered: ") \o Decimal(repository_count),
       Text("- Processed: ") \o Decimal(Len(processed)),
       Text("- Skipped: ") \o Decimal(Len(skipped)),
       << >>,
       Text("## Processed repositories"),
       << >> >>
    \o [k \in 1..Len(processed) |->
            Text("- ") \o Quoted(processed[k].repo) \o << Space >> \o ArrowText \o << Space >>
                \o Quoted(processed[k].cleaned_file)]
    \o (IF skipped # << >>
        THEN << << >>, Text("## Skipped repositories"), << >> >>
             \o [k \in 1..Len(skipped) |->
                     Text("- ") \o Quoted(skipped[k].repo) \o Text(": ") \o skipped[k].reason]
        ELSE << >>)

\* "\n".join(index_lines).rstrip() + "\n"
IndexText == rstrip(join(index_lines, << LF >>)) \o << LF >>

(***************************************************************************)
(* run, statement by statement.                                            *)
(***************************************************************************)
\* clean_readme is not being executed
CleanIdle ==
    /\ markdown_text = << >>
    /\ lines = << >>
    /\ title_index = None
    /\ para_index = None
    /\ title_block = << >>
    /\ start = 0
    /\ end = 0
    /\ body_src = << >>
    /\ filtered_body = << >>
    /\ output_lines = << >>
    /\ output = << >>
    /\ pc = "idle"
    /\ pass = 0
    /\ first_output = << >>
    /\ src_lines = << >>
    /\ line_ending = << LF >>

\* run after next_extract_directory has made output_root and summary has
\* been built, before the loop
InitRun ==
    /\ CleanIdle
    /\ repos \in RepoLists
    /\ include_archived \in BOOLEAN
    /\ repo_index = 0
    /\ repository_count = Len(repos)
    /\ processed = << >>
    /\ skipped = << >>
    /\ fetched = {}
    /\ dirs = { downloads_dir, out_dir }
    /\ files = {}
    /\ run_pc = "loop"

\* the entry the loop is at
InLoop == run_pc = "loop" /\ repo_index < Len(repos)

repo_info == repos[repo_index + 1]

\* the first test of the loop body
HasName == repo_info.name # NoName

\* the second test of the loop body
IsSkippedArchived == repo_info.archived /\ ~ include_archived

\* a fetch_readme call for repo that raised error
Failed(repo, error) == [repo |-> repo, ok |-> FALSE, error |-> error]

\* a fetch_readme call for repo that returned
Returned(repo) == [repo |-> repo, ok |-> TRUE, error |-> << >>]

\* if not name: continue
SkipNameless ==
    /\ InLoop
    /\ ~ HasName
    /\ repo_index' = repo_index + 1
    /\ UNCHANGED << repos, include_archived, repository_count, processed, skipped,
                    fetched, dirs, files, run_pc >>
    /\ UNCHANGED cleanVars

SkipArchived ==
    /\ InLoop
    /\ HasName
    /\ IsSkippedArchived
    /\ skipped' = Append(skipped, [repo |-> repo_info.name, reason |-> Text("archived")])
    /\ repo_index' = repo_index + 1
    /\ UNCHANGED << repos, include_archived, repository_count, processed, fetched,
                    dirs, files, run_pc >>
    /\ UNCHANGED cleanVars

\* SkipFailed with the append to summary["skipped"] left out
SkipFailedUnrecorded ==
    /\ InLoop
    /\ HasName
    /\ ~ IsSkippedArchived
    /\ \E error \in FetchErrors(repo_info.name) :
           fetched' = fetched \cup {Failed(repo_info.name, error)}
    /\ repo_index' = repo_index + 1
    /\ UNCHANGED << repos, include_archived, repository_count, processed, skipped,
                    dirs, files, run_pc >>
    /\ UNCHANGED cleanVars

\* fetch_readme raises: the except branch
SkipFailed ==
    /\ InLoop
    /\ HasName
    /\ ~ IsSkippedArchived
    /\ \E error \in FetchErrors(repo_info.name) :
           /\ fetched' = fetched \cup {Failed(repo_info.name, error)}
           /\ skipped' = Append(skipped, [repo |-> repo_info.name, reason |-> error])
    /\ repo_index' = repo_index + 1
    /\ UNCHANGED << repos, include_archived, repository_count, processed, dirs, files,
                    run_pc >>
    /\ UNCHANGED cleanVars

\* fetch_readme returns, both files are written, the entry is appended to processed
ProcessRepo ==
    /\ InLoop
    /\ HasName
    /\ ~ IsSkippedArchived
    /\ \E r \in FetchedReadmes :
           /\ fetched' = fetched \cup {Returned(repo_info.name)}
           /\ dirs' = mkdir(dirs, RepoDir(repo_info.name))
           /\ files' = write_text(write_text(files,
                                             RelativePath(repo_info.name, OriginalFile), r[1]),
                                  RelativePath(repo_info.name, CleanedFile), clean_readme(r[1]))
           /\ processed' =
                  Append(processed,
                         [repo |-> repo_info.name,
                          readme_path |-> r[2],
                          original_file |-> RelativePath(repo_info.name, OriginalFile),
                          cleaned_file |-> RelativePath(repo_info.name, CleanedFile)])
    /\ repo_index' = repo_index + 1
    /\ UNCHANGED << repos, include_archived, repository_count, skipped, run_pc >>
    /\ UNCHANGED cleanVars

\* fetch_readme returns and one of the two write_text calls of the loop
\* raises: the exception leaves run.  The second one raises after the first
\* has returned.
WriteRaises ==
    /\ InLoop
    /\ HasName
    /\ ~ IsSkippedArchived
    /\ \E r \in FetchedReadmes :
           /\ fetched' = fetched \cup {Returned(repo_info.name)}
           /\ \E left \in
                  FailedWrites(dirs, files, RepoDir(repo_info.name), OriginalFile, r[1])
                      \cup FailedWrites(mkdir(dirs, RepoDir(repo_info.name)),
                                        write_text(files,
                                                   RelativePath(repo_info.name, OriginalFile),
                                                   r[1]),
                                        RepoDir(repo_info.name), CleanedFile,
                                        clean_readme(r[1])) :
                  /\ dirs' = left[1]
                  /\ files' = left[2]
    /\ run_pc' = "raised"
    /\ UNCHANGED << repos, include_archived, repo_index, repository_count, processed,
                    skipped >>
    /\ UNCHANGED cleanVars

\* the loop is over
LoopDone == run_pc = "loop" /\ repo_index >= Len(repos)

\* write_text(output_root / "summary.json", ...) returns
WriteSummary ==
    /\ LoopDone
    /\ files' = write_text(files, PathJoin(out_dir, SummaryFile), SummaryText)
    /\ run_pc' = "summary"
    /\ UNCHANGED << repos, include_archived, repo_index, repository_count, processed,
                    skipped, fetched, dirs >>
    /\ UNCHANGED cleanVars

\* write_text(output_root / "summary.json", ...) raises
SummaryWriteRaises ==
    /\ LoopDone
    /\ \E left \in FailedWrites(dirs, files, out_dir, SummaryFile, SummaryText) :
           /\ dirs' = left[1]
           /\ files' = left[2]
    /\ run_pc' = "raised"
    /\ UNCHANGED << repos, include_archived, repo_index, repository_count, processed,
                    skipped, fetched >>
    /\ UNCHANGED cleanVars

\* the index is built, write_text(output_root / "README.md", ...) returns and
\* run returns output_root
WriteIndex ==
    /\ run_pc = "summary"
    /\ Encodable(IndexText)
    /\ files' = write_text(files, PathJoin(out_dir, IndexFile), IndexText)
    /\ run_pc' = "returned"
    /\ UNCHANGED << repos, include_archived, repo_index, repository_count, processed,
                    skipped, fetched, dirs >>
    /\ UNCHANGED cleanVars

\* write_text(output_root / "README.md", ...) raises
IndexWriteRaises ==
    /\ run_pc = "summary"
    /\ \E left \in FailedWrites(dirs, files, out_dir, IndexFile, IndexText) :
           /\ dirs' = left[1]
           /\ files' = left[2]
    /\ run_pc' = "raised"
    /\ UNCHANGED << repos, include_archived, repo_index, repository_count, processed,
                    skipped, fetched >>
    /\ UNCHANGED cleanVars

NextRun ==
    \/ SkipNameless
    \/ SkipArchived
    \/ SkipFailed
    \/ ProcessRepo
    \/ WriteRaises
    \/ WriteSummary
    \/ SummaryWriteRaises
    \/ WriteIndex
    \/ IndexWriteRaises

SpecRun == InitRun /\ [][NextRun]_vars

(***************************************************************************)
(* Vocabulary of the properties.                                           *)
(***************************************************************************)
Done == pc = "done"

IsBlank(l) == strip(l) = << >>

\* the lines of the returned text before its final line break
OutLines == split(SubSeq(output, 1, Len(output) - 1))

\* line l is a heading that find_content_end stops at
IsFooterHeading(l) ==
    heading_pattern(strip(l)) /\ normalize_heading_title(strip(l)) \in FOOTER_TITLES

\* index i holds the first footer heading at or after index from
FirstFooterAt(i, from) ==
    /\ i \in from..(Len(lines) - 1)
    /\ IsFooterHeading(lines[i + 1])
    /\ \A j \in from..(i - 1) : ~ IsFooterHeading(lines[j + 1])

Range(f) == { f[k] : k \in 1..Len(f) }

(***************************************************************************)
(* C1: for every input clean_readme returns a text that ends with exactly  *)
(* one line break: its last character is a line break and, unless the text *)
(* is that single line break, the character before it is not one.          *)
(***************************************************************************)
C1_TrailingNewline ==
    Done =>
        /\ Len(output) >= 1
        /\ output[Len(output)] = LF
        /\ Len(output) > 1 => output[Len(output) - 1] # LF

\* a document with non-blank lines whose whole content is filtered away
C1_Witness ==
    /\ Done
    /\ output = << LF >>
    /\ \E i \in 1..Len(lines) : ~ IsBlank(lines[i])

(***************************************************************************)
(* C2: the lines of the output never hold two adjacent blank lines, and    *)
(* when the output has a non-blank line its first and its last line are    *)
(* non-blank; also where the title block meets the body.                   *)
(***************************************************************************)
C2_NoDoubleBlank ==
    Done =>
        LET ol == OutLines
        IN  /\ \A i \in 1..(Len(ol) - 1) : ~ (IsBlank(ol[i]) /\ IsBlank(ol[i + 1]))
            /\ (\E i \in 1..Len(ol) : ~ IsBlank(ol[i]))
                   => ~ IsBlank(ol[1]) /\ ~ IsBlank(ol[Len(ol)])

\* the separator after the title block is followed by a blank body line
C2_Witness ==
    /\ Done
    /\ Len(title_block) = 3
    /\ filtered_body # << >>
    /\ IsBlank(filtered_body[1])
    /\ \E i \in 2..Len(filtered_body) : ~ IsBlank(filtered_body[i])

(***************************************************************************)
(* C3: idempotence.  When x = clean_readme(d) holds no badge/banner line,  *)
(* no "## usage" heading and no footer heading, clean_readme(x) = x.       *)
(* (Stated as claimed; the code does not satisfy it.)                      *)
(***************************************************************************)
C3_Idempotent ==
    (/\ Done
     /\ pass >= 2
     /\ \A i \in 1..Len(lines) :
            /\ ~ is_badge_or_banner_line(lines[i])
            /\ ~ usage_heading(strip(lines[i]))
            /\ ~ IsFooterHeading(lines[i]))
        => output = first_output

(***************************************************************************)
(* C4 as claimed: when a footer heading occurs at or after the content     *)
(* start, no line at or after the first such heading contributes to the    *)
(* output, neither to the body nor as the title block's paragraph line.    *)
(***************************************************************************)
C4_Original ==
    Done =>
        \A f \in 0..(Len(lines) - 1) :
            FirstFooterAt(f, start) =>
                /\ \A k \in Range(body_src) : k < f
                /\ para_index # None => para_index < f

(***************************************************************************)
(* C4 as amended: when a footer heading occurs at or after the content     *)
(* start, the body is cut before the first such heading: every body line   *)
(* of the output comes from an index in [start, f).  The title block is    *)
(* not cut by it.                                                          *)
(***************************************************************************)
C4_FooterTruncatesBody ==
    Done =>
        \A f \in 0..(Len(lines) - 1) :
            FirstFooterAt(f, start) =>
                /\ \A k \in Range(body_src) : start <= k /\ k < f
                /\ filtered_body = RstripLinesAt(lines, body_src)

\* a body cut at a footer heading while the paragraph line lies after it
C4_Witness ==
    /\ Done
    /\ \E f \in 0..(Len(lines) - 1) :
           /\ FirstFooterAt(f, start)
           /\ f + 1 < Len(lines)
           /\ body_src # << >>
           /\ para_index # None
           /\ para_index > f

(***************************************************************************)
(* C5 as claimed: no line of the output is a badge/banner line, the title  *)
(* line included.                                                          *)
(***************************************************************************)
C5_Original ==
    Done => \A i \in 1..Len(OutLines) : ~ is_badge_or_banner_line(OutLines[i])

(***************************************************************************)
(* C5 as amended: the only output line that can be a badge/banner line is  *)
(* the first one, and then it is the title line, which is emitted without  *)
(* the badge test; the paragraph line and the body lines never are.        *)
(***************************************************************************)
C5_OnlyTitleMayBeBadge ==
    Done =>
        \A i \in 1..Len(OutLines) :
            is_badge_or_banner_line(OutLines[i]) =>
                /\ i = 1
                /\ title_index # None
                /\ OutLines[1] = rstrip(lines[title_index + 1])

\* a badge title is emitted while a badge line of the window is dropped
C5_Witness ==
    /\ Done
    /\ title_index # None
    /\ is_badge_or_banner_line(lines[title_index + 1])
    /\ is_badge_or_banner_line(OutLines[1])
    /\ \E i \in start..(end - 1) : is_badge_or_banner_line(lines[i + 1])

(***************************************************************************)
(* The usage-heading pattern as the claims word it: "##", one or more      *)
(* whitespace characters, "usage" in any case, then no word character.     *)
(***************************************************************************)
MatchesUsage(l) ==
    LET s == strip(l)
    IN  \E n \in 3..Len(s) :
            /\ s[1] = Hash /\ s[2] = Hash
            /\ \A j \in 3..n : IsSpace(s[j])
            /\ Len(s) >= n + 5
            /\ \A k \in 1..5 : \E c \in IgnoreCase[k] : s[n + k] = c
            /\ (Len(s) = n + 5 \/ ~ IsWordChar(s[n + 6]))

UsageIndices == { i \in 0..(Len(lines) - 1) : MatchesUsage(lines[i + 1]) }

Level3Indices ==
    { i \in 0..(Len(lines) - 1) : startswith(strip(lines[i + 1]), Text("### ")) }

Least(S) == CHOOSE m \in S : \A x \in S : m <= x

(***************************************************************************)
(* C6: when a usage heading exists the body starts right after the first   *)
(* one, so no line between the title and that heading reaches the output   *)
(* except as the title block's paragraph; and no output line matches the   *)
(* usage pattern, be it the first usage heading or a later one.            *)
(***************************************************************************)
C6_UsageStart ==
    Done =>
        /\ UsageIndices # {} =>
               LET u == Least(UsageIndices)
               IN  /\ start = u + 1
                   /\ \A k \in Range(body_src) : k > u
                   /\ title_index # None =>
                          \A j \in (title_index + 1)..(u - 1) : j \notin Range(body_src)
        /\ \A i \in 1..Len(OutLines) : ~ MatchesUsage(OutLines[i])

\* title, captured paragraph, usage heading, and a second usage heading in the window
C6_Witness ==
    /\ Done
    /\ UsageIndices # {}
    /\ title_index # None
    /\ para_index # None
    /\ para_index < Least(UsageIndices)
    /\ \E j \in start..(end - 1) : MatchesUsage(lines[j + 1])

(***************************************************************************)
(* C7: a title block exists iff some stripped line starts with "# "; it is *)
(* the first such line, right-trimmed, then at most one paragraph line:    *)
(* the first of the 11 lines after the title that is non-blank, starts     *)
(* with no "#" and is no badge line.  Without a title the output is the    *)
(* normalised filtered body.                                               *)
(***************************************************************************)
IsTitleLine(l) == startswith(strip(l), Text("# "))

Qualifies(l) ==
    /\ ~ IsBlank(l)
    /\ ~ startswith(strip(l), << Hash >>)
    /\ ~ is_badge_or_banner_line(l)

C7_TitleBlock ==
    Done =>
        LET titles == { i \in 0..(Len(lines) - 1) : IsTitleLine(lines[i + 1]) }
        IN  /\ title_block # << >> <=> titles # {}
            /\ titles # {} =>
                   LET t == Least(titles)
                       q == { j \in (t + 1)..(t + 11) :
                                  j < Len(lines) /\ Qualifies(lines[j + 1]) }
                   IN  /\ title_block =
                              IF q = {} THEN << rstrip(lines[t + 1]) >>
                              ELSE << rstrip(lines[t + 1]), << >>,
                                      rstrip(lines[Least(q) + 1]) >>
                       /\ SubSeq(output_lines, 1, Len(title_block)) = title_block
            /\ titles = {} => output = JoinOutput(compact_blank_lines(filtered_body))

\* the only qualifying line lies 12 lines after the title and is not captured
C7_Witness ==
    /\ Done
    /\ title_index # None
    /\ para_index = None
    /\ Len(lines) > title_index + 12
    /\ Qualifies(lines[title_index + 12 + 1])

(***************************************************************************)
(* C8: find_content_start returns the index after the first usage heading  *)
(* if there is one, else the index of the first "### " line, else          *)
(* title_index + 1 if there is a title, else 0.                            *)
(***************************************************************************)
C8_StartPriority ==
    pc \in {"end", "filter", "compact", "done"} =>
        start = IF UsageIndices # {} THEN Least(UsageIndices) + 1
                ELSE IF Level3Indices # {} THEN Least(Level3Indices)
                ELSE IF title_index # None THEN title_index + 1
                ELSE 0

\* a level-3 heading before the first usage heading, and before the title
C8_Witness ==
    /\ pc = "end"
    /\ UsageIndices # {}
    /\ Level3Indices # {}
    /\ title_index # None
    /\ Least(Level3Indices) < Least(UsageIndices)
    /\ Least(Level3Indices) < title_index

(***************************************************************************)
(* Footer headings as the claims word them: the stripped line starts with  *)
(* n >= 2 "#" followed by whitespace (n one of levels), and what          *)
(* follows the "#" run, stripped, lowercased and whitespace-collapsed, is  *)
(* a member of FOOTER_TITLES.                                              *)
(***************************************************************************)
HashRun(s) ==
    IF \E k \in 1..Len(s) : s[k] # Hash
    THEN (CHOOSE k \in 1..Len(s) : s[k] # Hash /\ \A j \in 1..(k - 1) : s[j] = Hash) - 1
    ELSE Len(s)

ClaimedFooter(l, levels) ==
    LET s == strip(l)
        n == HashRun(s)
    IN  /\ n >= 2
        /\ n \in levels
        /\ n < Len(s)
        /\ IsSpace(s[n + 1])
        /\ CollapseWhitespace(lower(strip(SubSeq(s, n + 1, Len(s))))) \in FOOTER_TITLES

ClaimedEnd(from, levels) ==
    LET S == { i \in from..(Len(lines) - 1) : ClaimedFooter(lines[i + 1], levels) }
    IN  IF S # {} THEN Least(S) ELSE Len(lines)

(***************************************************************************)
(* C9: for the document just split and every start index,                  *)
(* find_content_end(lines, start) is the smallest index at or after start  *)
(* of a heading of any level >= 2, whatever its number of "#", whose       *)
(* normalised title is in FOOTER_TITLES, else len(lines).  (Stated as      *)
(* claimed; the code does not satisfy it.)                                 *)
(***************************************************************************)
C9_Original ==
    pc = "title" =>
        \A from \in 0..Len(lines) :
            find_content_end(lines, from) = ClaimedEnd(from, Nat)

\* what find_content_end returns instead: the same with the headings of two
\* to six "#" only, a line of seven or more "#" never ends the content
EndAtFooterUpToSix ==
    pc = "title" =>
        \A from \in 0..Len(lines) :
            find_content_end(lines, from) = ClaimedEnd(from, 2..6)

(***************************************************************************)
(* C10: when a title exists the content window starts after it, so the     *)
(* title line is never a body line.  (Stated as claimed; the code does not *)
(* satisfy it.)                                                            *)
(***************************************************************************)
C10_TitleOutsideWindow ==
    (Done /\ title_index # None) =>
        /\ start > title_index
        /\ title_index \notin Range(body_src)

(***************************************************************************)
(* C11: line-ending independence.  For lines without CR or LF, joined      *)
(* with one of LF, CRLF and CR and cleaned, the texts joined with the      *)
(* other two line endings give the same output, and no output holds a CR.  *)
(***************************************************************************)
C11_LineEndingIndependent ==
    (Done /\ pass = 1) =>
        /\ \A sep \in LineEndings \ {line_ending} :
               clean_readme(join(src_lines, sep)) = output
        /\ \A k \in 1..Len(output) : output[k] # CR

\* a document of several lines, blank ones among them, joined with CRLF
C11_Witness ==
    /\ Done
    /\ pass = 1
    /\ line_ending = << CR, LF >>
    /\ Len(src_lines) >= 3
    /\ \E i \in 1..Len(src_lines) : src_lines[i] = << >>
    /\ Len(output_lines) >= 2

(***************************************************************************)
(* Vocabulary of the properties of run.                                    *)
(***************************************************************************)
\* run has been through every entry of repos
AfterLoop == run_pc # "idle" /\ repo_index = Len(repos)

\* number of records of summary list l that name repository n
Mentions(l, n) == Cardinality({ k \in 1..Len(l) : l[k].repo = n })

Nameless == { i \in 1..Len(repos) : repos[i].name = NoName }

\* the bytes of an original README and of its cleaned form
WrittenReadmes == { << encode(r[1]), encode(clean_readme(r[1])) >> : r \in FetchedReadmes }

\* the file lies in the directory of repository n
InRepoDir(f, n) == startswith(f.path, RepoDir(n) \o Text("/"))

\* what the claim states about the entry repos[i]
EntryAccounted(i) ==
    LET n == repos[i].name
    IN  /\ Mentions(processed, n) + Mentions(skipped, n) = 1
        /\ (repos[i].archived /\ ~ include_archived) =>
               /\ [repo |-> n, reason |-> Text("archived")] \in Range(skipped)
               /\ \A f \in fetched : f.repo # n
        /\ \A f \in fetched :
               (f.repo = n /\ ~ f.ok) =>
                   [repo |-> n, reason |-> f.error] \in Range(skipped)
        /\ (\E f \in files : InRepoDir(f, n)) <=> Mentions(processed, n) = 1
        /\ Mentions(processed, n) = 1 =>
               \E w \in WrittenReadmes :
                   /\ [path |-> RelativePath(n, OriginalFile), content |-> w[1]] \in files
                   /\ [path |-> RelativePath(n, CleanedFile), content |-> w[2]] \in files

(***************************************************************************)
(* C12 as claimed: after the loop every listed repository is in exactly    *)
(* one of processed and skipped, so repository_count is the sum of their   *)
(* lengths; archived ones are skipped unfetched, failed ones are skipped   *)
(* with the error text, only processed ones have their files written.      *)
(***************************************************************************)
C12_Original ==
    AfterLoop =>
        /\ \A i \in 1..Len(repos) : EntryAccounted(i)
        /\ repository_count = Len(processed) + Len(skipped)

(***************************************************************************)
(* C12 as amended: the same for every listed repository that has a name;   *)
(* an entry without a name is counted in repository_count and recorded in  *)
(* neither list.                                                           *)
(***************************************************************************)
C12_NamedReposAccounted ==
    AfterLoop =>
        /\ \A i \in 1..Len(repos) : i \notin Nameless => EntryAccounted(i)
        /\ \A k \in 1..Len(processed) : processed[k].repo # NoName
        /\ \A k \in 1..Len(skipped) : skipped[k].repo # NoName
        /\ repository_count = Len(processed) + Len(skipped) + Cardinality(Nameless)

\* a run with a nameless entry, a failed one and, after it, a processed one
C12_Witness ==
    /\ AfterLoop
    /\ Nameless # {}
    /\ \E k \in 1..Len(skipped), i \in 1..Len(repos), j \in 1..Len(repos) :
           /\ skipped[k].reason \in FetchErrors(skipped[k].repo)
           /\ skipped[k].repo = repos[i].name
           /\ i < j
           /\ Mentions(processed, repos[j].name) = 1

====
